---- MODULE Spec2Model ----
(***************************************************************************)
(* State-machine model of the Lagori (Seven Stones) game component         *)
(* LagoriGame (src/unnamed/part_001) hosted by HomePage                    *)
(* (src/src/components/RoadmapViewer.tsx, second half).                    *)
(*                                                                         *)
(* Units.  Positions are whole canvas pixels.  dt is in milliseconds.      *)
(* Ball velocity is in tenths of a pixel per second.  len() returns a      *)
(* length in 1/32 pixel and norm() a unit vector in 1/1000.  Products are  *)
(* rounded to the nearest unit, the friction product is truncated (so a    *)
(* non-zero velocity always shrinks, as the real product does).  Distance  *)
(* and root comparisons are done exactly on squares.                       *)
(*                                                                         *)
(* React.  phase and paused are React state: a handler reads the value of  *)
(* the render that created it, and setPhase / setPaused take effect at the *)
(* next re-render.  Updates requested from native listeners and from the   *)
(* animation frame (keydown, pointerdown/up, loop) wait in pendingPhase /  *)
(* pendingPause until Render; updates made in React onClick handlers are   *)
(* committed when the handler returns.  At most MaxStale updates run       *)
(* between a request and its re-render.                                    *)
(*                                                                         *)
(* Environment.  The game starts on HomePage's default level.  The user's  *)
(* inputs follow a plan: each kind of input is given at the listed frames  *)
(* of a flight or rebuild, the pointer aims at the listed targets, and     *)
(* randomEdgeSpawn yields one point per side.  Rounds after the first are  *)
(* followed for a short rebuild only.                                      *)
(***************************************************************************)
EXTENDS Integers, FiniteSets, Sequences, TLC

\* ------------------------------------------------------------------ bounds
MaxLevelChanges == 1
MaxRounds == 2
\* number of rebuild frames followed in the first round and in later rounds
MaxRebuildFrames == 60
LaterRebuildFrames == 2
\* number of updates that may run while a state update waits for the re-render
MaxStale == 1
MaxFetches == 1
\* number of times resetRound(true) is called again right after a reset
MaxRepeats == 1
\* direct calls of segmentCircleIntersect: coordinates and radii tried
GridMax == 2
MaxRadius == 3
\* drags released on their own: the pointer is PointerStep apart on a grid
\* reaching MaxPointer steps from the player
PointerStep == 64
MaxPointer == 6
\* the frame loop followed on its own: time runs up to MaxClock ms
MaxClock == 300
\* a rebuild followed on its own: number of its frames followed
PursuitFrames == 260

\* The user's input plan: the frames of a flight or rebuild (counted from
\* its start) at which each kind of input is given
KeyDownTicks == {0}
KeyUpTicks == {31}
HoldTicks == [up |-> {0}, right |-> {22}, down |-> {}, left |-> {}]
ReleaseTicks == {31}
PlaceTicks == {0, 41, 42}
PauseTicks == {41}
LevelTicks == {31}
\* Elapsed real time between two frames, in ms
Elapsed == {50, 200}
\* Pointer positions used for aiming in the first round: a zero-length drag,
\* a throw that knocks the pile, one that leaves the field and one that
\* reaches the pile just as it falls below the stop speed
DragTargets ==
  { [x |-> 130, y |-> 450], [x |-> 280, y |-> 370],
    [x |-> 130, y |-> 540], [x |-> 168, y |-> 430] }
\* Pointer positions used for aiming in later rounds
LaterTargets == { [x |-> 280, y |-> 370] }
\* Outcomes of randomEdgeSpawn, one per side
SpawnPoints ==
  { [x |-> 20, y |-> 270], [x |-> 880, y |-> 270],
    [x |-> 450, y |-> 20], [x |-> 130, y |-> 520] }
MoveKeys == {"d"}
Dirs == {"up", "right"}
Careers == {"Doctor"}

\* --------------------------------------------------------------- constants
BASE_W == 900
BASE_H == 540

LevelKeys == {"beginner", "intermediate", "advanced"}
LEVELS ==
  [ beginner     |-> [stones |-> 5, attempts |-> 3, opponentSpeed |-> 90,  playerSpeed |-> 160],
    intermediate |-> [stones |-> 7, attempts |-> 3, opponentSpeed |-> 120, playerSpeed |-> 165],
    advanced     |-> [stones |-> 9, attempts |-> 2, opponentSpeed |-> 150, playerSpeed |-> 170] ]

Phases == {"intro", "aim", "dragging", "flight", "rebuild", "win", "lose"}

world ==
  [ w |-> BASE_W, h |-> BASE_H,
    pilePos |-> [x |-> BASE_W \div 2, y |-> BASE_H \div 2],
    pileRadius |-> 28, placeRange |-> 46, tagRange |-> 22,
    ballFriction |-> 985, ballStopSpeed |-> 20,
    maxThrowPower |-> 600, throwPowerScale |-> 3 ]

\* ------------------------------------------------------------ vector maths
Vec(a, b) == [x |-> a, y |-> b]

\* n / d rounded to the nearest integer (d > 0)
DivRound(n, d) ==
  IF n >= 0 THEN (2 * n + d) \div (2 * d) ELSE -((2 * (-n) + d) \div (2 * d))

\* n / d truncated toward zero (d > 0)
DivTrunc(n, d) == IF n >= 0 THEN n \div d ELSE -((-n) \div d)

RECURSIVE SqrtSearch(_, _, _)
SqrtSearch(n, lo, hi) ==
  IF lo >= hi THEN lo
  ELSE LET mid == (lo + hi + 1) \div 2
       IN IF mid * mid <= n THEN SqrtSearch(n, mid, hi) ELSE SqrtSearch(n, lo, mid - 1)

\* floor of the square root (Math.sqrt / Math.hypot)
ISqrt(n) == SqrtSearch(n, 0, 46340)

clamp(v, a, b) == IF v < a THEN a ELSE IF v > b THEN b ELSE v

\* Math.hypot(v.x, v.y), in 1/32 pixel
len(v) == ISqrt(1024 * (v.x * v.x + v.y * v.y))

sub(a, b) == Vec(a.x - b.x, a.y - b.y)
add(a, b) == Vec(a.x + b.x, a.y + b.y)

\* unit vector of v in 1/1000; the zero vector for a zero-length input
norm(v) ==
  LET l == len(v)
  IN IF l = 0 THEN Vec(0, 0)
     ELSE Vec(DivRound(v.x * 32000, l), DivRound(v.y * 32000, l))

\* mul(n, s) for a unit vector n in 1/1000
mul(n, s) == Vec(DivRound(n.x * s, 1000), DivRound(n.y * s, 1000))

\* dist(a, b) <= r, compared exactly on squares
DistLE(a, b, r) ==
  (a.x - b.x) * (a.x - b.x) + (a.y - b.y) * (a.y - b.y) <= r * r

\* sqrt(disc) >= k and sqrt(disc) <= k for disc >= 0, compared exactly
SqrtGE(disc, k) == k <= 0 \/ disc >= k * k
SqrtLE(disc, k) == k >= 0 /\ disc <= k * k

\* (variant: only the first root t1 is tested)
segmentCircleIntersectFirst(p0, p1, c, r) ==
  LET d == sub(p1, p0)
      f == sub(p0, c)
      a == d.x * d.x + d.y * d.y
      b == 2 * (f.x * d.x + f.y * d.y)
      cc == f.x * f.x + f.y * f.y - r * r
      discriminant == b * b - 4 * a * cc
  IN IF discriminant < 0 THEN FALSE
     ELSE IF a = 0 THEN FALSE
     ELSE SqrtLE(discriminant, -b) /\ SqrtGE(discriminant, -b - 2 * a)

\* A zero-length segment has a = b = 0: both roots are 0/0 = NaN in the
\* source and every comparison with NaN is false.
segmentCircleIntersect(p0, p1, c, r) ==
  LET d == sub(p1, p0)
      f == sub(p0, c)
      a == d.x * d.x + d.y * d.y
      b == 2 * (f.x * d.x + f.y * d.y)
      cc == f.x * f.x + f.y * f.y - r * r
      discriminant == b * b - 4 * a * cc
      \* t1 = (-b - sqrt(disc)) / (2a), t2 = (-b + sqrt(disc)) / (2a)
      t1ge0 == SqrtLE(discriminant, -b)
      t1le1 == SqrtGE(discriminant, -b - 2 * a)
      t2ge0 == SqrtGE(discriminant, b)
      t2le1 == SqrtLE(discriminant, 2 * a + b)
  IN IF discriminant < 0 THEN FALSE
     ELSE IF a = 0 THEN FALSE
     ELSE (t1ge0 /\ t1le1) \/ (t2ge0 /\ t2le1)

\* ------------------------------------------------------------------- state
VARIABLES
  levelKey,        \* prop of LagoriGame (HomePage's level state)
  phase,           \* React state phase, as seen by the current closures
  pendingPhase,    \* setPhase value waiting for the re-render, or "none"
  paused,          \* React state paused
  pendingPause,    \* TRUE when an odd number of setPaused(p => !p) wait
  heldDir,         \* D-pad direction held, or "none"
  keys,            \* keys.current: the set of keys held down
  player, opponent, ball, ballVel, ballActive,
  pileCollapsed,
  score, attemptsLeft, stonesPlaced, stonesTotal,   \* metrics.current
  dragging, dragStart, dragCurrent,
  careerModalOpen, pendingModal, selectedCareer, classInput,
  hasViewedRoadmap, videoWatched, fetches,
  fetchHist,       \* history: in-flight fetches of earlier rounds, success in this round
  roundBase,       \* history: score right after the last resetRound
  frames,          \* history: updates run since the flight / rebuild began
  levelChanges,    \* history: number of level selections made
  rounds,          \* history: number of rounds started
  repeats,         \* history: number of repeated resetRound(true) calls
  lastDt,          \* history: dt passed to the last update that ran, in ms
  probe,           \* inputs and result of a direct call of a helper
  clock,           \* times of the frame loop followed on its own
  hindi,           \* state of the Hindi copy run beside the English one
  viewer,          \* state of a mounted RoadmapViewer and its requests
  stale,           \* history: updates run since a state update was queued
  bonuses          \* history: completion bonuses awarded in this round

\* RoadmapViewer before it is mounted
noViewer ==
  [ career |-> "", class |-> 0, loading |-> FALSE,
    roadmapData |-> [career |-> "", starting_class |-> 0], error |-> "null",
    inflight |-> {}, issued |-> 0, shown |-> 0 ]

noFetchHist == [earlier |-> 0, viewed |-> FALSE]

vars ==
  << levelKey, phase, pendingPhase, paused, pendingPause, heldDir, keys,
     player, opponent, ball, ballVel, ballActive, pileCollapsed,
     score, attemptsLeft, stonesPlaced, stonesTotal,
     dragging, dragStart, dragCurrent,
     careerModalOpen, pendingModal, selectedCareer, classInput,
     hasViewedRoadmap, videoWatched, fetches, fetchHist,
     roundBase, frames, levelChanges, rounds, repeats, lastDt, probe, clock, hindi, viewer,
     stale, bonuses >>

entityVars == << player, opponent, ball, ballVel, ballActive, pileCollapsed >>
metricVars == << score, attemptsLeft, stonesPlaced, stonesTotal >>
dragVars == << dragging, dragStart, dragCurrent >>
careerVars ==
  << careerModalOpen, pendingModal, selectedCareer, classInput,
     hasViewedRoadmap, videoWatched, fetches, fetchHist >>
reactVars == << phase, pendingPhase, paused, pendingPause >>
histVars ==
  << roundBase, frames, levelChanges, rounds, repeats, lastDt, probe, clock, hindi, viewer,
     stale, bonuses >>

level == LEVELS[levelKey]

\* (variant: a spawn point ten units lower)
spawnPointLow == Vec(130, BASE_H - 80)
\* the player's spawn point
spawnPoint == Vec(130, BASE_H - 90)

\* The phase and pause flag the next re-render will show
EffPhase == IF pendingPhase = "none" THEN phase ELSE pendingPhase
EffPaused == IF pendingPause THEN ~paused ELSE paused
EffModal == careerModalOpen \/ pendingModal

\* a state update waits for the re-render
pending == pendingPhase # "none" \/ pendingPause \/ pendingModal

running == phase \in {"flight", "rebuild"}
terminal == phase \in {"win", "lose"}

InitGame ==
  /\ levelKey = "intermediate"
  /\ phase = "intro" /\ pendingPhase = "none"
  /\ paused = FALSE /\ pendingPause = FALSE
  /\ heldDir = "none" /\ keys = {}
  /\ player = spawnPoint
  /\ opponent = Vec(BASE_W - 120, 80)
  /\ ball = spawnPoint
  /\ ballVel = Vec(0, 0) /\ ballActive = FALSE
  /\ pileCollapsed = FALSE
  /\ score = 0
  /\ attemptsLeft = LEVELS[levelKey].attempts
  /\ stonesPlaced = 0
  /\ stonesTotal = LEVELS[levelKey].stones
  /\ dragging = FALSE /\ dragStart = Vec(0, 0) /\ dragCurrent = Vec(0, 0)
  /\ careerModalOpen = FALSE /\ pendingModal = FALSE
  /\ selectedCareer = "none" /\ classInput = FALSE
  /\ hasViewedRoadmap = FALSE /\ videoWatched = FALSE /\ fetches = 0
  /\ fetchHist = noFetchHist
  /\ roundBase = 0 /\ frames = 0 /\ levelChanges = 0 /\ rounds = 0
  /\ repeats = 0
  /\ stale = 0 /\ bonuses = 0
  /\ lastDt = 0

\* no helper is called directly while the game runs
noProbe ==
  [p0 |-> Vec(0, 0), p1 |-> Vec(0, 0), c |-> Vec(0, 0), r |-> 1,
   done |-> FALSE, hit |-> FALSE, back |-> FALSE]

\* the frame loop's times are not followed while the game runs
noClock ==
  [now |-> 0, last |-> 0, pausedAt |-> -1, resumedAt |-> -1,
   awaiting |-> FALSE, dt |-> -1]

\* the Hindi copy is not run beside the game
noHindi == [ev |-> [type |-> "none"]]

Init == InitGame /\ probe = noProbe /\ clock = noClock /\ hindi = noHindi /\ viewer = noViewer

\* ------------------------------------------------------------- re-render
\* A re-render applies every queued state update and re-creates the closures.
Render ==
  /\ pendingPhase # "none" \/ pendingPause \/ pendingModal
  /\ phase' = EffPhase /\ pendingPhase' = "none"
  /\ paused' = EffPaused /\ pendingPause' = FALSE
  /\ careerModalOpen' = EffModal /\ pendingModal' = FALSE
  /\ stale' = 0
  /\ UNCHANGED << levelKey, heldDir, keys, entityVars, metricVars, dragVars,
                  selectedCareer, classInput, hasViewedRoadmap, videoWatched,
                  fetches, fetchHist, roundBase, frames, levelChanges, rounds, repeats, lastDt, probe, clock, hindi, viewer,
                  bonuses >>

\* ------------------------------------------------------------ round reset
\* Outcomes of randomEdgeSpawn(BASE_W, BASE_H): a point on the border inset
\* by the 20-unit margin
randomEdgeSpawn == SpawnPoints

\* randomEdgeSpawn's result for its two random draws: the side and the
\* coordinate t along it (Math.random() scaled to the side's length and
\* offset by the margin, here a whole number of units)
margin == 20
\* (variant: the margin is the inset of the player's spawn point)
edgeSpawnWide(side, t) ==
  CASE side = 0 -> Vec(90, t)
    [] side = 1 -> Vec(BASE_W - 90, t)
    [] side = 2 -> Vec(t, 90)
    [] OTHER    -> Vec(t, BASE_H - 90)
edgeSpawn(side, t) ==
  CASE side = 0 -> Vec(margin, t)
    [] side = 1 -> Vec(BASE_W - margin, t)
    [] side = 2 -> Vec(t, margin)
    [] OTHER    -> Vec(t, BASE_H - margin)
\* every outcome of randomEdgeSpawn at whole coordinates
EdgePoints ==
  {edgeSpawn(sd, t) : sd \in {0, 1}, t \in margin..(BASE_H - margin)}
    \cup {edgeSpawn(sd, t) : sd \in {2, 3}, t \in margin..(BASE_W - margin)}

\* resetRound(keepScore), called from an onClick handler: the refs are
\* written at once and the queued setPhase("aim") and modal resets are
\* committed when the handler returns.
\* (variant: a kept score is halved)
resetScoreHalved(keepScore) == IF keepScore THEN score \div 2 ELSE 0
\* if (!keepScore) metrics.current.score = 0
resetScore(keepScore) == IF keepScore THEN score ELSE 0

\* the assignments of resetRound(keepScore) and their commit
resetState(keepScore) ==
  /\ attemptsLeft' = level.attempts
  /\ stonesPlaced' = 0
  /\ stonesTotal' = level.stones
  /\ score' = resetScore(keepScore)
  /\ player' = spawnPoint
  /\ opponent' \in randomEdgeSpawn
  /\ ball' = spawnPoint
  /\ ballVel' = Vec(0, 0)
  /\ ballActive' = FALSE
  /\ pileCollapsed' = FALSE
  /\ careerModalOpen' = FALSE /\ pendingModal' = FALSE
  /\ selectedCareer' = "none" /\ classInput' = FALSE
  /\ hasViewedRoadmap' = FALSE /\ videoWatched' = FALSE
  /\ phase' = "aim" /\ pendingPhase' = "none"
  /\ paused' = EffPaused /\ pendingPause' = FALSE
  /\ roundBase' = score' /\ frames' = 0
  /\ stale' = 0 /\ bonuses' = 0
  /\ fetchHist' = [earlier |-> fetches, viewed |-> FALSE]
  /\ UNCHANGED << levelKey, heldDir, keys, dragVars, fetches, levelChanges,
                  lastDt, probe, clock, hindi, viewer >>

\* resetRound(keepScore) starting a round
resetRound(keepScore) ==
  /\ rounds < MaxRounds
  /\ rounds' = rounds + 1
  /\ resetState(keepScore)
  /\ UNCHANGED repeats

\* the state is as resetRound left it: no update and no input since
JustReset ==
  /\ phase = "aim" /\ ~pending /\ ~dragging
  /\ frames = 0 /\ attemptsLeft = level.attempts

\* resetRound(true) called once more right after a reset
ResetAgain ==
  /\ JustReset
  /\ repeats < MaxRepeats
  /\ repeats' = repeats + 1
  /\ resetState(TRUE)
  /\ UNCHANGED rounds

\* Start button of the intro overlay
startGame ==
  /\ phase = "intro"
  /\ resetRound(FALSE)

\* Restart button of the lose overlay
Restart ==
  /\ phase = "lose"
  /\ resetRound(FALSE)

\* Next Round button (win overlay and career modal), enabled by the gate
NextRound ==
  /\ phase = "win" \/ careerModalOpen
  /\ hasViewedRoadmap /\ videoWatched
  /\ resetRound(TRUE)

\* ---------------------------------------------------------------- keyboard
\* keydown / keyup of a movement key: only keys.current changes
KeyDown(k) ==
  /\ terminal \/ (phase = "rebuild" /\ frames \in KeyDownTicks)
  /\ k \notin keys
  /\ keys' = keys \cup {k}
  /\ UNCHANGED << levelKey, reactVars, heldDir, entityVars, metricVars,
                  dragVars, careerVars, histVars >>

KeyUp(k) ==
  /\ terminal \/ (phase = "rebuild" /\ frames \in KeyUpTicks)
  /\ k \in keys
  /\ keys' = keys \ {k}
  /\ UNCHANGED << levelKey, reactVars, heldDir, entityVars, metricVars,
                  dragVars, careerVars, histVars >>

\* keydown of "p": setPaused(p => !p) from a native listener
KeyP ==
  /\ paused \/ (running /\ frames \in PauseTicks)
  /\ pendingPause' = ~pendingPause
  /\ UNCHANGED << levelKey, phase, pendingPhase, paused, heldDir, keys,
                  entityVars, metricVars, dragVars, careerVars, histVars >>

\* Pause / Resume button (onClick): committed when the handler returns
PauseButton ==
  /\ paused \/ (running /\ frames \in PauseTicks)
  /\ paused' = ~EffPaused /\ pendingPause' = FALSE
  /\ phase' = EffPhase /\ pendingPhase' = "none"
  /\ careerModalOpen' = EffModal /\ pendingModal' = FALSE
  /\ stale' = 0
  /\ UNCHANGED << levelKey, heldDir, keys, entityVars, metricVars, dragVars,
                  selectedCareer, classInput, hasViewedRoadmap, videoWatched,
                  fetches, fetchHist, roundBase, frames, levelChanges, rounds, repeats, lastDt, probe, clock, hindi, viewer,
                  bonuses >>

\* ------------------------------------------------------------ place stone
near == DistLE(player, world.pilePos, world.placeRange)

\* (variant: without the test against stonesTotal)
placeableAny == phase = "rebuild" /\ near
\* tryPlaceStone places a stone in this state
placeable == phase = "rebuild" /\ near /\ stonesPlaced < stonesTotal

\* (variant: one stone early)
completesEarly == stonesPlaced + 2 >= stonesTotal
\* the placed stone completes the stack
completes == stonesPlaced + 1 >= stonesTotal

\* (variant: two stones are put on the stack at once)
placedStonesTwo == IF placeable THEN stonesPlaced + 2 ELSE stonesPlaced

\* metrics after tryPlaceStone()
placedStones == IF placeable THEN stonesPlaced + 1 ELSE stonesPlaced
placedScore == IF placeable /\ completes THEN score + 50 ELSE score
placedBonuses == IF placeable /\ completes THEN bonuses + 1 ELSE bonuses

\* tryPlaceStone() called from a native listener (Space, pointerdown)
tryPlaceStone ==
  /\ stonesPlaced' = placedStones
  /\ score' = placedScore
  /\ pendingPhase' = IF placeable /\ completes THEN "win" ELSE pendingPhase
  /\ pendingModal' = IF placeable /\ completes THEN TRUE ELSE pendingModal
  /\ bonuses' = placedBonuses
  /\ UNCHANGED << levelKey, phase, paused, pendingPause, heldDir, keys,
                  entityVars, attemptsLeft, stonesTotal, dragVars,
                  careerModalOpen, selectedCareer, classInput, hasViewedRoadmap,
                  videoWatched, fetches, fetchHist, roundBase, frames, levelChanges,
                  rounds, repeats, lastDt, probe, clock, hindi, viewer, stale >>

\* keydown of Space
KeySpace ==
  IF phase = "rebuild"
  THEN frames \in PlaceTicks /\ tryPlaceStone
  ELSE UNCHANGED vars

\* Place button of the on-screen controls (onClick -> handlePlaceStone)
handlePlaceStone ==
  /\ phase = "rebuild"
  /\ frames \in PlaceTicks
  /\ stonesPlaced' = placedStones
  /\ score' = placedScore
  /\ phase' = IF placeable /\ completes THEN "win" ELSE EffPhase
  /\ pendingPhase' = "none"
  /\ careerModalOpen' = (EffModal \/ (placeable /\ completes))
  /\ pendingModal' = FALSE
  /\ paused' = EffPaused /\ pendingPause' = FALSE
  /\ stale' = 0 /\ bonuses' = placedBonuses
  /\ UNCHANGED << levelKey, heldDir, keys, entityVars, attemptsLeft,
                  stonesTotal, dragVars, selectedCareer, classInput,
                  hasViewedRoadmap, videoWatched, fetches, fetchHist, roundBase, frames,
                  levelChanges, rounds, repeats, lastDt, probe, clock, hindi, viewer >>

\* ----------------------------------------------------------------- pointer
\* pointer positions offered in this round
Targets == IF rounds <= 1 THEN DragTargets ELSE LaterTargets

\* (variant: a drag starts in every phase but Rebuild)
downAnyPhase(p) ==
  IF phase = "rebuild"
  THEN frames \in PlaceTicks /\ tryPlaceStone
  ELSE /\ dragging' = TRUE
       /\ dragStart' = player
       /\ dragCurrent' = p
       /\ pendingPhase' = "dragging"
       /\ UNCHANGED << levelKey, phase, paused, pendingPause, heldDir, keys,
                       entityVars, metricVars, careerVars, histVars >>

\* pointerdown on the canvas at p
down(p) ==
  IF phase # "aim"
  THEN IF phase = "rebuild"
       THEN frames \in PlaceTicks /\ tryPlaceStone
       ELSE UNCHANGED vars
  ELSE /\ dragging' = TRUE
       /\ dragStart' = player
       /\ dragCurrent' = p
       /\ pendingPhase' = "dragging"
       /\ UNCHANGED << levelKey, phase, paused, pendingPause, heldDir, keys,
                       entityVars, metricVars, careerVars, histVars >>

\* pointermove on the canvas to p
move(p) ==
  /\ dragging
  /\ dragCurrent' = p
  /\ UNCHANGED << levelKey, reactVars, heldDir, keys, entityVars, metricVars,
                  dragging, dragStart, careerVars, histVars >>

\* (variant: the throw power is not limited to maxThrowPower)
throwVelocityUncapped(dir) ==
  mul(norm(dir), DivRound(len(dir) * world.throwPowerScale * 10, 32))

\* velocity given to the ball for the drag vector dir, in 1/10 px/s
throwVelocity(dir) ==
  LET power == clamp(DivRound(len(dir) * world.throwPowerScale * 10, 32),
                     0, world.maxThrowPower * 10)
  IN mul(norm(dir), power)

\* pointerup / pointercancel on the canvas
up ==
  /\ dragging
  /\ dragging' = FALSE
  /\ ball' = player
  /\ ballVel' = throwVelocity(sub(dragCurrent, dragStart))
  /\ ballActive' = TRUE
  /\ pendingPhase' = "flight"
  /\ frames' = 0
  /\ UNCHANGED << levelKey, phase, paused, pendingPause, heldDir, keys,
                  player, opponent, pileCollapsed, metricVars, dragStart,
                  dragCurrent, careerVars, roundBase, levelChanges, rounds, repeats, lastDt, probe, clock, hindi, viewer,
                  stale, bonuses >>

\* ------------------------------------------------------------------ D-pad
\* onMouseDown / onTouchStart of a direction button (rendered in rebuild)
HoldDir(d) ==
  /\ phase = "rebuild"
  /\ frames \in HoldTicks[d]
  /\ heldDir # d
  /\ heldDir' = d
  /\ UNCHANGED << levelKey, reactVars, keys, entityVars, metricVars, dragVars,
                  careerVars, histVars >>

\* onMouseUp / onMouseLeave / onTouchEnd of a direction button
ReleaseDir ==
  /\ phase = "rebuild"
  /\ frames \in ReleaseTicks
  /\ heldDir # "none"
  /\ heldDir' = "none"
  /\ UNCHANGED << levelKey, reactVars, keys, entityVars, metricVars, dragVars,
                  careerVars, histVars >>

\* -------------------------------------------------------- per-frame update
held(k) == k \in keys

\* sum of the keyboard directions held
keyMove ==
  Vec( (IF held("d") \/ held("arrowright") THEN 1 ELSE 0)
         - (IF held("a") \/ held("arrowleft") THEN 1 ELSE 0),
       (IF held("s") \/ held("arrowdown") THEN 1 ELSE 0)
         - (IF held("w") \/ held("arrowup") THEN 1 ELSE 0) )

\* n * speed * dt for a unit vector component n in 1/1000, dt in ms
step(n, speed, dt) == DivRound(n * speed * dt, 1000000)

\* player position after the keyboard movement of one update
keyMoved(dt) ==
  LET v == norm(keyMove)
  IN Vec(clamp(player.x + step(v.x, level.playerSpeed, dt), 10, BASE_W - 10),
         clamp(player.y + step(v.y, level.playerSpeed, dt), 10, BASE_H - 10))

Max(a, b) == IF a >= b THEN a ELSE b
Min(a, b) == IF a <= b THEN a ELSE b

\* (variant: the on-screen button movement is not kept inside the field)
dirMovedFree(p, dt) ==
  LET s == step(1000, level.playerSpeed, dt)
  IN CASE heldDir = "up"    -> Vec(p.x, p.y - s)
       [] heldDir = "down"  -> Vec(p.x, p.y + s)
       [] heldDir = "left"  -> Vec(p.x - s, p.y)
       [] heldDir = "right" -> Vec(p.x + s, p.y)
       [] OTHER             -> p

\* player position after the on-screen button movement applied to p
dirMoved(p, dt) ==
  LET s == step(1000, level.playerSpeed, dt)
  IN CASE heldDir = "up"    -> Vec(p.x, Max(10, p.y - s))
       [] heldDir = "down"  -> Vec(p.x, Min(BASE_H - 10, p.y + s))
       [] heldDir = "left"  -> Vec(Max(10, p.x - s), p.y)
       [] heldDir = "right" -> Vec(Min(BASE_W - 10, p.x + s), p.y)
       [] OTHER             -> p

\* (variant: the opponent heads for the player's position before the move)
pursueStale(p, dt) ==
  LET dir == norm(sub(player, opponent))
  IN Vec(opponent.x + step(dir.x, level.opponentSpeed, dt),
         opponent.y + step(dir.y, level.opponentSpeed, dt))
\* (variant: the direction taken from the player to the opponent)
pursueAway(p, dt) ==
  LET dir == norm(sub(opponent, p))
  IN Vec(opponent.x + step(dir.x, level.opponentSpeed, dt),
         opponent.y + step(dir.y, level.opponentSpeed, dt))
\* opponent position after pursuing the player at p for one update
pursue(p, dt) ==
  LET dir == norm(sub(p, opponent))
  IN Vec(opponent.x + step(dir.x, level.opponentSpeed, dt),
         opponent.y + step(dir.y, level.opponentSpeed, dt))

\* (variant: a shorter tag range)
taggedNear(p, o) == DistLE(p, o, world.tagRange - 4)
tagged(p, o) == DistLE(p, o, world.tagRange)

\* rebuild frames followed in this round (a rebuild followed on its own is not
\* counted as a round)
FrameCap ==
  IF rounds = 0 THEN PursuitFrames
  ELSE IF rounds <= 1 THEN MaxRebuildFrames ELSE LaterRebuildFrames

\* frames of a flight are counted up to MaxRebuildFrames
nextFrame == IF frames < MaxRebuildFrames THEN frames + 1 ELSE frames

\* the update runs before the re-render of a pending state update
nextStale == IF pending THEN stale + 1 ELSE stale

rebuildUpdate(dt) ==
  LET p == dirMoved(keyMoved(dt), dt)
      o == pursue(p, dt)
  IN /\ frames < FrameCap
     /\ pending => stale < MaxStale
     /\ lastDt' = dt
     /\ player' = p
     /\ opponent' = o
     /\ pendingPhase' = IF tagged(p, o) THEN "lose" ELSE pendingPhase
     /\ frames' = frames + 1
     /\ stale' = nextStale
     /\ UNCHANGED << levelKey, phase, paused, pendingPause, heldDir, keys,
                     ball, ballVel, ballActive, pileCollapsed, metricVars,
                     dragVars, careerVars, roundBase, levelChanges, rounds, repeats, probe, clock, hindi, viewer,
                     bonuses >>

\* ball position and velocity after one integration step
ballMoved(dt) ==
  Vec(ball.x + DivRound(ballVel.x * dt, 10000),
      ball.y + DivRound(ballVel.y * dt, 10000))
\* (variant: the friction is applied twice in an update)
ballDampedTwice ==
  Vec(DivTrunc(DivTrunc(ballVel.x * world.ballFriction, 1000) * world.ballFriction, 1000),
      DivTrunc(DivTrunc(ballVel.y * world.ballFriction, 1000) * world.ballFriction, 1000))
ballDamped ==
  Vec(DivTrunc(ballVel.x * world.ballFriction, 1000),
      DivTrunc(ballVel.y * world.ballFriction, 1000))

\* (variant: a ball at rest is not slow)
slowMoving(v) ==
  /\ v # Vec(0, 0)
  /\ v.x * v.x + v.y * v.y < (10 * world.ballStopSpeed) * (10 * world.ballStopSpeed)
\* len(v) < ballStopSpeed for a velocity in 1/10 px/s, compared on squares
slow(v) ==
  v.x * v.x + v.y * v.y < (10 * world.ballStopSpeed) * (10 * world.ballStopSpeed)

out(b) ==
  b.x < -50 \/ b.x > BASE_W + 50 \/ b.y < -50 \/ b.y > BASE_H + 50

\* (variant: only the end point of the motion is tested against the pile)
hitsPileEnd(b) ==
  /\ ~pileCollapsed
  /\ DistLE(b, world.pilePos, world.pileRadius)
\* the motion segment of this update hits the standing pile
hitsPile(b) ==
  /\ ~pileCollapsed
  /\ segmentCircleIntersect(ball, b, world.pilePos, world.pileRadius)

\* (variant: half the collapse score)
collapseScoreHalf == score + 5
\* metrics.current.score += 10 when the pile falls
collapseScore == score + 10

\* (variant: pileCollapsed as it was before the collision block)
failedThrowStale(hit, stop) == stop /\ ~pileCollapsed
\* the flight ends with the pile standing: pileCollapsed is read after the
\* collision block has run
failedThrow(hit, stop) == stop /\ ~(pileCollapsed \/ hit)

\* (variant: two attempts per failed throw)
failedAttemptsTwo == attemptsLeft - 2
\* metrics.current.attemptsLeft -= 1
failedAttempts == attemptsLeft - 1

\* (variant: Lose with one attempt left)
failedPhaseEarly == IF failedAttempts > 1 THEN "aim" ELSE "lose"
\* the phase requested after a failed throw
failedPhase == IF failedAttempts > 0 THEN "aim" ELSE "lose"

flightUpdate(dt) ==
  LET b == ballMoved(dt)
      v == ballDamped
      hit == hitsPile(b)
      stop == slow(v) \/ out(b)
      failed == failedThrow(hit, stop)
  IN /\ pending => stale < MaxStale
     /\ lastDt' = dt
     /\ ball' = b
     /\ ballVel' = v
     /\ pileCollapsed' = (pileCollapsed \/ hit)
     /\ score' = IF hit THEN collapseScore ELSE score
     /\ IF hit THEN opponent' \in randomEdgeSpawn ELSE opponent' = opponent
     /\ ballActive' = ~(hit \/ stop)
     /\ attemptsLeft' = IF failed THEN failedAttempts ELSE attemptsLeft
     /\ pendingPhase' =
          IF failed THEN failedPhase
          ELSE IF hit \/ stop THEN "rebuild"
          ELSE pendingPhase
     /\ frames' = IF hit THEN 0 ELSE nextFrame
     /\ stale' = nextStale
     /\ UNCHANGED << levelKey, phase, paused, pendingPause, heldDir, keys,
                     player, stonesPlaced, stonesTotal, dragVars, careerVars,
                     roundBase, levelChanges, rounds, repeats, probe, clock, hindi, viewer, bonuses >>

\* (variant: the flight update does not look at ballActive)
updateInactive(dt) ==
  IF phase = "rebuild" THEN rebuildUpdate(dt)
  ELSE IF phase = "flight" THEN flightUpdate(dt)
  ELSE UNCHANGED vars
\* (variant: the rebuild update also runs in Win and Lose)
updateAlways(dt) ==
  IF phase \in {"rebuild", "win", "lose"} THEN rebuildUpdate(dt)
  ELSE IF phase = "flight" /\ ballActive THEN flightUpdate(dt)
  ELSE UNCHANGED vars
\* update(dt): one simulation step
update(dt) ==
  IF phase = "rebuild" THEN rebuildUpdate(dt)
  ELSE IF phase = "flight" /\ ballActive THEN flightUpdate(dt)
  ELSE UNCHANGED vars

\* (variant: the elapsed time is passed on as it is)
loopUnclamped(e) ==
  IF ~paused THEN update(e) ELSE UNCHANGED vars

\* (variant: the update runs in paused frames too)
loopPaused(e) == update(Min(50, e))

\* one animation frame, e ms after the previous one
loop(e) ==
  LET dt == Min(50, e)
  IN IF ~paused THEN update(dt) ELSE UNCHANGED vars

\* ------------------------------------------------------------ level select
\* HomePage's level buttons: the new prop re-renders the game
setLevel(k) ==
  /\ phase = "intro" \/ (phase = "rebuild" /\ frames \in LevelTicks)
  /\ k # levelKey
  /\ levelChanges < MaxLevelChanges
  /\ levelKey' = k
  /\ levelChanges' = levelChanges + 1
  /\ phase' = EffPhase /\ pendingPhase' = "none"
  /\ paused' = EffPaused /\ pendingPause' = FALSE
  /\ careerModalOpen' = EffModal /\ pendingModal' = FALSE
  /\ stale' = 0
  /\ UNCHANGED << heldDir, keys, entityVars, metricVars, dragVars,
                  selectedCareer, classInput, hasViewedRoadmap, videoWatched,
                  fetches, fetchHist, roundBase, frames, rounds, repeats, lastDt, probe, clock, hindi, viewer, bonuses >>

\* ------------------------------------------------------------ career modal
\* View Career Roadmap button of the win overlay
ViewCareer ==
  /\ phase = "win"
  /\ ~careerModalOpen
  /\ careerModalOpen' = TRUE
  /\ UNCHANGED << levelKey, reactVars, heldDir, keys, entityVars, metricVars,
                  dragVars, pendingModal, selectedCareer, classInput,
                  hasViewedRoadmap, videoWatched, fetches, fetchHist, histVars >>

CloseModal ==
  /\ careerModalOpen
  /\ careerModalOpen' = FALSE
  /\ UNCHANGED << levelKey, reactVars, heldDir, keys, entityVars, metricVars,
                  dragVars, pendingModal, selectedCareer, classInput,
                  hasViewedRoadmap, videoWatched, fetches, fetchHist, histVars >>

\* career <select> onChange
SelectCareer(c) ==
  /\ careerModalOpen
  /\ c # selectedCareer
  /\ selectedCareer' = c
  /\ videoWatched' = FALSE
  /\ UNCHANGED << levelKey, reactVars, heldDir, keys, entityVars, metricVars,
                  dragVars, careerModalOpen, pendingModal, classInput,
                  hasViewedRoadmap, fetches, fetchHist, histVars >>

\* class <input> onChange to a non-empty value
SetClass ==
  /\ careerModalOpen
  /\ ~classInput
  /\ classInput' = TRUE
  /\ UNCHANGED << levelKey, reactVars, heldDir, keys, entityVars, metricVars,
                  dragVars, careerModalOpen, pendingModal, selectedCareer,
                  hasViewedRoadmap, videoWatched, fetches, fetchHist, histVars >>

\* Show Roadmap button: starts a fetch
ShowRoadmap ==
  /\ careerModalOpen
  /\ selectedCareer # "none" /\ classInput
  /\ fetches < MaxFetches
  /\ fetches' = fetches + 1
  /\ UNCHANGED << levelKey, reactVars, heldDir, keys, entityVars, metricVars,
                  dragVars, careerModalOpen, pendingModal, selectedCareer,
                  classInput, hasViewedRoadmap, videoWatched, fetchHist,
                  histVars >>

\* a fetch resolves with a roadmap: one started before the last resetRound,
\* or one started since
FetchOk ==
  /\ fetches > 0
  /\ fetches' = fetches - 1
  /\ hasViewedRoadmap' = TRUE
  /\ videoWatched' = FALSE
  /\ \/ /\ fetchHist.earlier > 0
        /\ fetchHist' = [fetchHist EXCEPT !.earlier = @ - 1]
     \/ /\ fetchHist.earlier < fetches
        /\ fetchHist' = [fetchHist EXCEPT !.viewed = TRUE]
  /\ UNCHANGED << levelKey, reactVars, heldDir, keys, entityVars, metricVars,
                  dragVars, careerModalOpen, pendingModal, selectedCareer,
                  classInput, histVars >>

\* a fetch fails
FetchFail ==
  /\ fetches > 0
  /\ fetches' = fetches - 1
  /\ \/ /\ fetchHist.earlier > 0
        /\ fetchHist' = [fetchHist EXCEPT !.earlier = @ - 1]
     \/ /\ fetchHist.earlier < fetches
        /\ fetchHist' = fetchHist
  /\ UNCHANGED << levelKey, reactVars, heldDir, keys, entityVars, metricVars,
                  dragVars, careerModalOpen, pendingModal, selectedCareer,
                  classInput, hasViewedRoadmap, videoWatched, histVars >>

\* YouTube onEnd of the selected career's video
VideoEnd ==
  /\ careerModalOpen
  /\ selectedCareer # "none"
  /\ ~videoWatched
  /\ videoWatched' = TRUE
  /\ UNCHANGED << levelKey, reactVars, heldDir, keys, entityVars, metricVars,
                  dragVars, careerModalOpen, pendingModal, selectedCareer,
                  classInput, hasViewedRoadmap, fetches, fetchHist, histVars >>

\* ------------------------------------------------------------ specification
Next ==
  \/ Render
  \/ startGame
  \/ Restart
  \/ NextRound
  \/ \E k \in MoveKeys : KeyDown(k)
  \/ \E k \in MoveKeys : KeyUp(k)
  \/ KeyP
  \/ PauseButton
  \/ KeySpace
  \/ handlePlaceStone
  \/ \E p \in Targets : down(p)
  \/ \E p \in Targets : move(p)
  \/ up
  \/ \E d \in Dirs : HoldDir(d)
  \/ ReleaseDir
  \/ \E e \in Elapsed : loop(e)
  \/ \E k \in LevelKeys : setLevel(k)
  \/ ViewCareer
  \/ CloseModal
  \/ \E c \in Careers : SelectCareer(c)
  \/ SetClass
  \/ ShowRoadmap
  \/ FetchOk
  \/ FetchFail
  \/ VideoEnd

Spec == Init /\ [][Next]_vars

\* The game with resetRound(true) called a second time in succession
NextReset == Next \/ ResetAgain
SpecReset == Init /\ [][NextReset]_vars

\* ------------------------------------------ direct calls of the hit test
\* segmentCircleIntersect called on its own: the endpoints range over the
\* whole-pixel points within GridMax of the origin, the radius over
\* 1..MaxRadius, and the call is made in both orders of the endpoints.
gameVars ==
  << levelKey, reactVars, heldDir, keys, entityVars, metricVars, dragVars,
     careerVars, roundBase, frames, levelChanges, rounds, repeats, lastDt,
     stale, bonuses >>

Grid == {Vec(x, y) : x \in -GridMax..GridMax, y \in -GridMax..GridMax}
Centres == {Vec(0, 0), Vec(1, -1)}
Radii == 1..MaxRadius

InitSegment ==
  /\ InitGame
  /\ probe \in [p0 : Grid, p1 : Grid, c : Centres, r : Radii,
                done : {FALSE}, hit : {FALSE}, back : {FALSE}]
  /\ clock = noClock /\ hindi = noHindi /\ viewer = noViewer

Intersect ==
  /\ ~probe.done
  /\ probe' =
       [probe EXCEPT
          !.done = TRUE,
          !.hit = segmentCircleIntersect(probe.p0, probe.p1, probe.c, probe.r),
          !.back = segmentCircleIntersect(probe.p1, probe.p0, probe.c, probe.r)]
  /\ UNCHANGED << gameVars, clock, hindi, viewer >>

NextSegment == Intersect
SpecSegment == InitSegment /\ [][NextSegment]_vars

\* ------------------------------------------------- the frame loop's times
\* The loop effect followed on its own, with the time in ms: a frame
\* computes dt from `last`, stores the frame's time in `last` and calls
\* update(dt) unless paused; a change of the paused flag re-runs the effect,
\* which starts a new loop with `last` set to the current time.  Frames and
\* toggles come Gaps ms after the previous event.
Gaps == {10, 40, 200}

\* (variant: a restarted loop keeps the `last` of the loop before)
restartLastKept(t) == clock.last

\* `let last = performance.now()` of a (re)started loop at time t
restartLast(t) == t

otherVars ==
  << levelKey, phase, pendingPhase, pendingPause, heldDir, keys, entityVars,
     metricVars, dragVars, careerVars, roundBase, frames, levelChanges, rounds,
     repeats, lastDt, stale, bonuses, probe, hindi, viewer >>

InitClock ==
  InitGame /\ probe = noProbe /\ clock = noClock /\ hindi = noHindi /\ viewer = noViewer

\* one animation frame at time now + e
Frame(e) ==
  LET t == clock.now + e
      dt == Min(50, t - clock.last)
  IN /\ t <= MaxClock
     /\ clock' =
          IF paused
          THEN [clock EXCEPT !.now = t, !.last = t]
          ELSE [clock EXCEPT !.now = t, !.last = t, !.dt = dt,
                             !.awaiting = FALSE]
     /\ UNCHANGED << paused, otherVars >>

\* setPaused, the re-render and the restart of the loop effect at now + g
TogglePaused(g) ==
  LET t == clock.now + g
  IN /\ t <= MaxClock
     /\ paused' = ~paused
     /\ clock' =
          IF paused
          THEN [clock EXCEPT !.now = t, !.last = restartLast(t),
                             !.resumedAt = t, !.awaiting = TRUE]
          ELSE [clock EXCEPT !.now = t, !.last = restartLast(t),
                             !.pausedAt = t, !.awaiting = FALSE]
     /\ UNCHANGED otherVars

NextClock ==
  \/ \E e \in Gaps : Frame(e)
  \/ \E g \in Gaps : TogglePaused(g)
SpecClock == InitClock /\ [][NextClock]_vars

\* ------------------------------------------------------- the Hindi copy
\* The Hindi copy of LagoriGame (second half of src/unnamed/part_001) run
\* beside the English one.  Its state is the record hindi.cur; its phase tags
\* are written in Latin letters:
\*   parichay = intro, nishana = aim, kheenchna = dragging, udaan = flight,
\*   punarnirman = rebuild, jeet = win, haar = lose.
\* The Hindi copy handles an event first and notes it in hindi.ev, with its
\* state before the event in hindi.pre; then the English game handles the
\* same event (with the same outcome of randomEdgeSpawn).
hiTag ==
  [none |-> "none", intro |-> "parichay", aim |-> "nishana",
   dragging |-> "kheenchna", flight |-> "udaan", rebuild |-> "punarnirman",
   win |-> "jeet", lose |-> "haar"]

\* the English game's state with the phase tags renamed
enView ==
  [phase |-> hiTag[phase], pendingPhase |-> hiTag[pendingPhase],
   heldDir |-> heldDir, keys |-> keys,
   player |-> player, opponent |-> opponent, ball |-> ball,
   ballVel |-> ballVel, ballActive |-> ballActive,
   pileCollapsed |-> pileCollapsed,
   score |-> score, attemptsLeft |-> attemptsLeft,
   stonesPlaced |-> stonesPlaced, stonesTotal |-> stonesTotal,
   dragging |-> dragging, dragStart |-> dragStart, dragCurrent |-> dragCurrent,
   careerModalOpen |-> careerModalOpen, pendingModal |-> pendingModal]

\* the Hindi copy after construction
hiInitial ==
  [phase |-> "parichay", pendingPhase |-> "none",
   heldDir |-> "none", keys |-> {},
   player |-> Vec(130, BASE_H - 90), opponent |-> Vec(BASE_W - 120, 80),
   ball |-> Vec(130, BASE_H - 90),
   ballVel |-> Vec(0, 0), ballActive |-> FALSE,
   pileCollapsed |-> FALSE,
   score |-> 0, attemptsLeft |-> level.attempts,
   stonesPlaced |-> 0, stonesTotal |-> level.stones,
   dragging |-> FALSE, dragStart |-> Vec(0, 0), dragCurrent |-> Vec(0, 0),
   careerModalOpen |-> FALSE, pendingModal |-> FALSE]

\* resetRound(keepScore) of the Hindi copy, randomEdgeSpawn yielding spawn
hiResetRound(h, keepScore, spawn) ==
  [h EXCEPT !.attemptsLeft = level.attempts,
            !.stonesPlaced = 0,
            !.stonesTotal = level.stones,
            !.score = IF keepScore THEN @ ELSE 0,
            !.player = Vec(130, BASE_H - 90),
            !.opponent = spawn,
            !.ball = Vec(130, BASE_H - 90),
            !.ballVel = Vec(0, 0),
            !.ballActive = FALSE,
            !.pileCollapsed = FALSE,
            !.careerModalOpen = FALSE, !.pendingModal = FALSE,
            !.phase = "nishana", !.pendingPhase = "none"]

\* the Start and Restart buttons, shown in parichay and in haar
hiStart(h, spawn) ==
  IF h.phase = "parichay" THEN hiResetRound(h, FALSE, spawn) ELSE h
hiRestart(h, spawn) ==
  IF h.phase = "haar" THEN hiResetRound(h, FALSE, spawn) ELSE h

\* tryPlaceStone() of the Hindi copy
hiTryPlaceStone(h) ==
  IF h.phase # "punarnirman" THEN h
  ELSE IF ~DistLE(h.player, world.pilePos, world.placeRange) THEN h
  ELSE IF h.stonesPlaced < h.stonesTotal
       THEN IF h.stonesPlaced + 1 >= h.stonesTotal
            THEN [h EXCEPT !.stonesPlaced = @ + 1, !.score = @ + 50,
                           !.pendingPhase = "jeet", !.pendingModal = TRUE]
            ELSE [h EXCEPT !.stonesPlaced = @ + 1]
       ELSE h

\* keydown of Space, of a movement key, and keyup
hiKeySpace(h) == IF h.phase = "punarnirman" THEN hiTryPlaceStone(h) ELSE h
hiKeyDown(h, k) == [h EXCEPT !.keys = @ \cup {k}]
hiKeyUp(h, k) == [h EXCEPT !.keys = @ \ {k}]

\* the direction buttons
hiHoldDir(h, d) == [h EXCEPT !.heldDir = d]
hiReleaseDir(h) == [h EXCEPT !.heldDir = "none"]

\* pointerdown at p and pointerup
hiDown(h, p) ==
  IF h.phase # "nishana"
  THEN IF h.phase = "punarnirman" THEN hiTryPlaceStone(h) ELSE h
  ELSE [h EXCEPT !.dragging = TRUE, !.dragStart = h.player,
                 !.dragCurrent = p, !.pendingPhase = "kheenchna"]
hiUp(h) ==
  IF ~h.dragging THEN h
  ELSE [h EXCEPT !.dragging = FALSE,
                 !.ball = h.player,
                 !.ballVel = throwVelocity(sub(h.dragCurrent, h.dragStart)),
                 !.ballActive = TRUE,
                 !.pendingPhase = "udaan"]

\* the rebuild branch of update(dt)
hiRebuild(h, dt) ==
  LET mx == (IF "d" \in h.keys \/ "arrowright" \in h.keys THEN 1 ELSE 0)
              - (IF "a" \in h.keys \/ "arrowleft" \in h.keys THEN 1 ELSE 0)
      my == (IF "s" \in h.keys \/ "arrowdown" \in h.keys THEN 1 ELSE 0)
              - (IF "w" \in h.keys \/ "arrowup" \in h.keys THEN 1 ELSE 0)
      v == norm(Vec(mx, my))
      p1 == Vec(clamp(h.player.x + step(v.x, level.playerSpeed, dt),
                      10, BASE_W - 10),
                clamp(h.player.y + step(v.y, level.playerSpeed, dt),
                      10, BASE_H - 10))
      s == step(1000, level.playerSpeed, dt)
      p2 == CASE h.heldDir = "up"    -> Vec(p1.x, Max(10, p1.y - s))
              [] h.heldDir = "down"  -> Vec(p1.x, Min(BASE_H - 10, p1.y + s))
              [] h.heldDir = "left"  -> Vec(Max(10, p1.x - s), p1.y)
              [] h.heldDir = "right" -> Vec(Min(BASE_W - 10, p1.x + s), p1.y)
              [] OTHER               -> p1
      dir == norm(sub(p2, h.opponent))
      o == Vec(h.opponent.x + step(dir.x, level.opponentSpeed, dt),
               h.opponent.y + step(dir.y, level.opponentSpeed, dt))
  IN [h EXCEPT !.player = p2, !.opponent = o,
               !.pendingPhase =
                  IF DistLE(p2, o, world.tagRange) THEN "haar" ELSE @]

\* (variant: the two outcomes of a failed throw exchanged)
hiFailedTagSwapped(left) == IF left > 0 THEN "haar" ELSE "nishana"
\* the phase requested after a failed throw with `left` attempts left
hiFailedTag(left) == IF left > 0 THEN "nishana" ELSE "haar"

\* the motion segment of the Hindi ball meets the standing pile
hiHit(h, dt) ==
  /\ ~h.pileCollapsed
  /\ segmentCircleIntersect(
       h.ball,
       Vec(h.ball.x + DivRound(h.ballVel.x * dt, 10000),
           h.ball.y + DivRound(h.ballVel.y * dt, 10000)),
       world.pilePos, world.pileRadius)

\* the flight branch of update(dt)
hiFlight(h, dt, spawn) ==
  LET b == Vec(h.ball.x + DivRound(h.ballVel.x * dt, 10000),
               h.ball.y + DivRound(h.ballVel.y * dt, 10000))
      v == Vec(DivTrunc(h.ballVel.x * world.ballFriction, 1000),
               DivTrunc(h.ballVel.y * world.ballFriction, 1000))
      hit == hiHit(h, dt)
      collapsed == h.pileCollapsed \/ hit
      stop == slow(v) \/ out(b)
      left == IF stop /\ ~collapsed THEN h.attemptsLeft - 1 ELSE h.attemptsLeft
  IN [h EXCEPT !.ball = b, !.ballVel = v,
               !.pileCollapsed = collapsed,
               !.score = IF hit THEN @ + 10 ELSE @,
               !.opponent = IF hit THEN spawn ELSE @,
               !.ballActive = ~(hit \/ stop),
               !.attemptsLeft = left,
               !.pendingPhase =
                  IF stop
                  THEN IF ~collapsed THEN hiFailedTag(left) ELSE "punarnirman"
                  ELSE IF hit THEN "punarnirman" ELSE @]

\* one animation frame of the Hindi copy (it is never paused here)
hiLoop(h, e, spawn) ==
  LET dt == Min(50, e)
  IN IF h.phase = "punarnirman" THEN hiRebuild(h, dt)
     ELSE IF h.phase = "udaan" /\ h.ballActive THEN hiFlight(h, dt, spawn)
     ELSE h

\* the re-render commits the queued state updates
hiRender(h) ==
  [h EXCEPT !.phase = IF h.pendingPhase = "none" THEN @ ELSE h.pendingPhase,
            !.pendingPhase = "none",
            !.careerModalOpen = @ \/ h.pendingModal,
            !.pendingModal = FALSE]

Ev(t, a) == [type |-> t, arg |-> a]

InitHindi ==
  /\ InitGame /\ probe = noProbe /\ clock = noClock
  /\ hindi = [cur |-> hiInitial, pre |-> hiInitial, ev |-> Ev("none", 0)]
  /\ viewer = noViewer

\* the Hindi copy handles the event ev and reaches next; the English game
\* has handled every event before
HindiStep(ev, next) ==
  /\ enView = hindi.cur
  /\ hindi' = [cur |-> next, pre |-> hindi.cur, ev |-> ev]
  /\ UNCHANGED << gameVars, probe, clock, viewer >>

\* Events are offered where the plan lets the English game receive them: the
\* guards of its actions, and for Space, the pointer and the frames also one
\* phase in which they do nothing.
canTick ==
  \/ phase = "rebuild" /\ frames < FrameCap /\ (pending => stale < MaxStale)
  \/ phase = "flight" /\ ballActive /\ (pending => stale < MaxStale)
  \/ phase = "dragging"
canPlace == (phase = "rebuild" /\ frames \in PlaceTicks) \/ phase = "flight"
canKey == terminal \/ phase = "rebuild"

\* the outcome of randomEdgeSpawn matters only to a frame that fells the pile
tickSpawns == IF hiHit(hindi.cur, 50) THEN randomEdgeSpawn ELSE {Vec(0, 0)}

\* an event given to the Hindi copy
HindiEvent ==
  \/ \E s \in randomEdgeSpawn :
       /\ phase = "intro" /\ rounds < MaxRounds
       /\ HindiStep(Ev("start", s), hiStart(hindi.cur, s))
  \/ \E s \in randomEdgeSpawn :
       /\ phase = "lose" /\ rounds < MaxRounds
       /\ HindiStep(Ev("restart", s), hiRestart(hindi.cur, s))
  \/ \E p \in Targets :
       /\ phase = "aim" \/ canPlace
       /\ HindiStep(Ev("down", p), hiDown(hindi.cur, p))
  \/ dragging /\ HindiStep(Ev("up", 0), hiUp(hindi.cur))
  \/ pending /\ HindiStep(Ev("render", 0), hiRender(hindi.cur))
  \/ canPlace /\ HindiStep(Ev("space", 0), hiKeySpace(hindi.cur))
  \/ \E k \in MoveKeys :
       /\ canKey /\ (phase = "rebuild" => frames \in KeyDownTicks)
       /\ k \notin keys
       /\ HindiStep(Ev("keydown", k), hiKeyDown(hindi.cur, k))
  \/ \E k \in MoveKeys :
       /\ canKey /\ (phase = "rebuild" => frames \in KeyUpTicks)
       /\ k \in keys
       /\ HindiStep(Ev("keyup", k), hiKeyUp(hindi.cur, k))
  \/ \E d \in Dirs :
       /\ phase = "rebuild" /\ frames \in HoldTicks[d] /\ heldDir # d
       /\ HindiStep(Ev("hold", d), hiHoldDir(hindi.cur, d))
  \/ /\ phase = "rebuild" /\ frames \in ReleaseTicks /\ heldDir # "none"
     /\ HindiStep(Ev("release", 0), hiReleaseDir(hindi.cur))
  \/ \E e \in Elapsed, s \in tickSpawns :
       /\ canTick
       /\ HindiStep(Ev("tick", [e |-> e, spawn |-> s]), hiLoop(hindi.cur, e, s))

\* the English game handles the event the Hindi copy has handled
EnglishEvent ==
  /\ enView = hindi.pre
  /\ \/ hindi.ev.type = "start" /\ startGame /\ opponent' = hindi.ev.arg
     \/ hindi.ev.type = "restart" /\ Restart /\ opponent' = hindi.ev.arg
     \/ hindi.ev.type = "down" /\ down(hindi.ev.arg)
     \/ hindi.ev.type = "up" /\ up
     \/ hindi.ev.type = "render" /\ Render
     \/ hindi.ev.type = "space" /\ KeySpace
     \/ hindi.ev.type = "keydown" /\ KeyDown(hindi.ev.arg)
     \/ hindi.ev.type = "keyup" /\ KeyUp(hindi.ev.arg)
     \/ hindi.ev.type = "hold" /\ HoldDir(hindi.ev.arg)
     \/ hindi.ev.type = "release" /\ ReleaseDir
     \/ /\ hindi.ev.type = "tick"
        /\ loop(hindi.ev.arg.e)
        /\ pileCollapsed' # pileCollapsed => opponent' = hindi.ev.arg.spawn

NextHindi == HindiEvent \/ EnglishEvent
\* an event given to the Hindi copy is given to the English game as well
SpecHindi == InitHindi /\ [][NextHindi]_vars

\* --------------------------------------------------- releasing a drag
\* The first round after Start, a drag begun and rendered, the pointer moved
\* to a point of a grid to the right of and above the player (one column to
\* the left and one row below included); then the pointer is released.
PointerGrid ==
  {Vec(spawnPoint.x + i * PointerStep, spawnPoint.y - j * PointerStep) :
     i \in -1..MaxPointer, j \in -1..MaxPointer}

InitThrow ==
  /\ levelKey = "intermediate"
  /\ phase = "dragging" /\ pendingPhase = "none"
  /\ paused = FALSE /\ pendingPause = FALSE
  /\ heldDir = "none" /\ keys = {}
  /\ player = spawnPoint
  /\ opponent \in randomEdgeSpawn
  /\ ball = spawnPoint
  /\ ballVel = Vec(0, 0) /\ ballActive = FALSE
  /\ pileCollapsed = FALSE
  /\ score = 0
  /\ attemptsLeft = LEVELS[levelKey].attempts
  /\ stonesPlaced = 0
  /\ stonesTotal = LEVELS[levelKey].stones
  /\ dragging = TRUE /\ dragStart = spawnPoint /\ dragCurrent \in PointerGrid
  /\ careerModalOpen = FALSE /\ pendingModal = FALSE
  /\ selectedCareer = "none" /\ classInput = FALSE
  /\ hasViewedRoadmap = FALSE /\ videoWatched = FALSE /\ fetches = 0
  /\ fetchHist = noFetchHist
  /\ roundBase = 0 /\ frames = 0 /\ levelChanges = 0 /\ rounds = 1
  /\ repeats = 0
  /\ stale = 0 /\ bonuses = 0
  /\ lastDt = 0
  /\ probe = noProbe
  /\ clock = noClock /\ hindi = noHindi /\ viewer = noViewer

NextThrow == up \/ Render
SpecThrow == InitThrow /\ [][NextThrow]_vars

\* ------------------------------------------------------ one flight alone
\* Releases followed through the whole flight, with frames 50 ms apart and
\* some of them 16 ms apart.
\* The pointer positions give a throw at the pile at full power, a weak throw
\* at the pile, a throw of no length, a full-power throw past the pile, a
\* throw out of the field, a throw that comes to rest in the field, a throw
\* that runs out of speed at the pile and a full-power throw at its rim.
FlightDrags ==
  { Vec(450, 270), Vec(162, 432), Vec(130, 450), Vec(450, 380),
    Vec(130, 250), Vec(230, 450), Vec(168, 430), Vec(450, 300) }
FlightGaps == {16, 50}
\* ticks of the flight after which the next frame may come early
ShortTicks == {0, 1, 2, 5, 9, 20, 40}

InitFlight ==
  /\ levelKey = "intermediate"
  /\ phase = "dragging" /\ pendingPhase = "none"
  /\ paused = FALSE /\ pendingPause = FALSE
  /\ heldDir = "none" /\ keys = {}
  /\ player = spawnPoint
  /\ opponent = Vec(BASE_W - 120, 80)
  /\ ball = spawnPoint
  /\ ballVel = Vec(0, 0) /\ ballActive = FALSE
  /\ pileCollapsed = FALSE
  /\ score = 0
  /\ attemptsLeft = LEVELS[levelKey].attempts
  /\ stonesPlaced = 0
  /\ stonesTotal = LEVELS[levelKey].stones
  /\ dragging = TRUE /\ dragStart = spawnPoint /\ dragCurrent \in FlightDrags
  /\ careerModalOpen = FALSE /\ pendingModal = FALSE
  /\ selectedCareer = "none" /\ classInput = FALSE
  /\ hasViewedRoadmap = FALSE /\ videoWatched = FALSE /\ fetches = 0
  /\ fetchHist = noFetchHist
  /\ roundBase = 0 /\ frames = 0 /\ levelChanges = 0 /\ rounds = 1
  /\ repeats = 0
  /\ stale = 0 /\ bonuses = 0
  /\ lastDt = 0
  /\ probe = noProbe
  /\ clock = noClock /\ hindi = noHindi /\ viewer = noViewer

\* a frame while the game shows the flight
FlightFrame(e) ==
  /\ phase = "flight"
  /\ e < 50 => frames \in ShortTicks
  /\ loop(e)

NextFlight == up \/ Render \/ \E e \in FlightGaps : FlightFrame(e)
SpecFlight == InitFlight /\ [][NextFlight]_vars

\* requestAnimationFrame keeps the loop running and React re-renders after a
\* state update: a frame or a re-render that stays possible happens
AnyFlightFrame == \E e \in FlightGaps : FlightFrame(e)
SpecFlightLive ==
  SpecFlight /\ WF_vars(AnyFlightFrame) /\ WF_vars(Render) /\ WF_vars(up)

\* ----------------------------------------------------- one rebuild alone
\* A rebuild followed from its first frame with no key, button, pointer or
\* pause event, on every level, with the opponent on its four sample spawn
\* points and on three corners of the border.  An on-screen direction may
\* still be held from an earlier round.
PursuitSpawns == SpawnPoints \cup {Vec(880, 20), Vec(20, 20), Vec(880, 520)}
PursuitShortTicks == {0, 1, 20}

InitPursuit ==
  /\ levelKey \in LevelKeys
  /\ phase = "rebuild" /\ pendingPhase = "none"
  /\ paused = FALSE /\ pendingPause = FALSE
  /\ heldDir \in {"none"} \cup Dirs /\ keys = {}
  /\ player = spawnPoint
  /\ opponent \in PursuitSpawns
  /\ ball = world.pilePos
  /\ ballVel = Vec(0, 0) /\ ballActive = FALSE
  /\ pileCollapsed = TRUE
  /\ score = 10
  /\ attemptsLeft = LEVELS[levelKey].attempts
  /\ stonesPlaced = 0
  /\ stonesTotal = LEVELS[levelKey].stones
  /\ dragging = FALSE /\ dragStart = spawnPoint /\ dragCurrent = world.pilePos
  /\ careerModalOpen = FALSE /\ pendingModal = FALSE
  /\ selectedCareer = "none" /\ classInput = FALSE
  /\ hasViewedRoadmap = FALSE /\ videoWatched = FALSE /\ fetches = 0
  /\ fetchHist = noFetchHist
  /\ roundBase = 0 /\ frames = 0 /\ levelChanges = 0 /\ rounds = 0
  /\ repeats = 0
  /\ stale = 0 /\ bonuses = 0
  /\ lastDt = 0
  /\ probe = noProbe
  /\ clock = noClock /\ hindi = noHindi /\ viewer = noViewer

\* a frame while the game shows the rebuild
PursuitFrame(e) ==
  /\ phase = "rebuild"
  /\ e < 50 => frames \in PursuitShortTicks
  /\ loop(e)
AnyPursuitFrame == \E e \in FlightGaps : PursuitFrame(e)

\* the loop's update runs in this state
PursuitFrameRuns ==
  /\ phase = "rebuild" /\ ~paused
  /\ frames < FrameCap
  /\ pending => stale < MaxStale

NextPursuit == Render \/ AnyPursuitFrame
SpecPursuit == InitPursuit /\ [][NextPursuit]_vars
\* requestAnimationFrame keeps the loop running and React re-renders after a
\* state update; the fairness of the frame is written out on the update's
\* guard (WF_vars(AnyPursuitFrame) with its enabling condition spelt out)
SpecPursuitLive ==
  /\ SpecPursuit
  /\ WF_vars(Render)
  /\ ([]<>(~PursuitFrameRuns) \/ []<><<AnyPursuitFrame>>_vars)

\* ------------------------------------------------------------- properties
\* Steps of the run, recognised from the state before and after

\* a step of resetRound
RoundReset == rounds' # rounds

\* an update of an unpaused frame in Flight with the ball active
FlightTick ==
  /\ phase = "flight" /\ ballActive /\ ~paused /\ ~RoundReset
  /\ << ball, ballVel, ballActive, frames >>' # << ball, ballVel, ballActive, frames >>

\* the update ended the flight (too slow or out of the field), pile standing
FailedThrowTick ==
  FlightTick /\ (slow(ballVel') \/ out(ball')) /\ ~pileCollapsed'

\* the motion segment of the update meets the standing pile
HitTick ==
  /\ FlightTick /\ ~pileCollapsed
  /\ segmentCircleIntersect(ball, ball', world.pilePos, world.pileRadius)

\* an update of an unpaused frame in Rebuild
RebuildTick ==
  phase = "rebuild" /\ ~paused /\ ~RoundReset /\ frames' = frames + 1

\* a place action that puts the last stone on the stack
CompletingPlace ==
  /\ ~RoundReset
  /\ stonesPlaced' = stonesPlaced + 1
  /\ stonesPlaced' = stonesTotal

\* a point of the border inset by 20 units from the field edges
OnEdge(o) ==
  \/ o.x \in {20, BASE_W - 20} /\ 20 <= o.y /\ o.y <= BASE_H - 20
  \/ o.y \in {20, BASE_H - 20} /\ 20 <= o.x /\ o.x <= BASE_W - 20

\* C11: resetRound puts the player at (130, 450), the ball at the player's
\* position with zero velocity and inactive, the opponent on the field edge,
\* clears pileCollapsed and stonesPlaced, sets attemptsLeft and stonesTotal
\* from the level and the phase to Aim; the score becomes 0 from Start and
\* Restart (keepScore false) and is unchanged by Next Round (keepScore true).
C11_ResetState ==
  [][ RoundReset =>
        /\ player' = Vec(130, 450)
        /\ ball' = player' /\ ballVel' = Vec(0, 0) /\ ~ballActive'
        /\ OnEdge(opponent')
        /\ ~pileCollapsed' /\ stonesPlaced' = 0
        /\ attemptsLeft' = LEVELS[levelKey'].attempts
        /\ stonesTotal' = LEVELS[levelKey'].stones
        /\ phase' = "aim" /\ pendingPhase' = "none"
        /\ phase = "intro" => score' = 0
        /\ phase = "win" => score' = score
        /\ phase = "lose" => (score' = 0 \/ (careerModalOpen /\ score' = score)) ]_vars

\* a round started by Next Round with the score of the won round kept
C11_Witness ==
  /\ rounds = 2 /\ phase = "aim" /\ frames = 0 /\ score = 60
  /\ player = Vec(130, 450) /\ ~pileCollapsed /\ stonesPlaced = 0
  /\ attemptsLeft = LEVELS[levelKey].attempts /\ levelKey = "advanced"

\* C12: resetRound(true) called again right after a reset leaves the phase,
\* the metrics (score included), the pile flag and the player and ball state
\* as the first call left them; only the opponent's spawn point may differ.
C12_ResetIdempotent ==
  [][ repeats' # repeats =>
        /\ UNCHANGED << phase, score, attemptsLeft, stonesPlaced, stonesTotal,
                        pileCollapsed, player, ball, ballVel, ballActive >>
        /\ OnEdge(opponent') ]_vars

\* the second call came after Next Round with a kept score of 60 and drew
\* another spawn point
C12_Witness ==
  /\ repeats = 1 /\ rounds = 2 /\ score = 60 /\ roundBase = 60
  /\ phase = "aim" /\ opponent = Vec(880, 270)

\* C1: attemptsLeft equals the level's attempt budget right after resetRound,
\* never increases before the next resetRound, and is exactly 0 when a failed
\* throw requests Lose and when Lose is entered from Flight.
C1_AttemptBudget ==
  [][ /\ RoundReset => attemptsLeft' = LEVELS[levelKey'].attempts
      /\ ~RoundReset => attemptsLeft' <= attemptsLeft
      /\ (FailedThrowTick /\ pendingPhase' = "lose") => attemptsLeft' = 0
      /\ (phase = "flight" /\ phase' = "lose") => attemptsLeft' = 0 ]_vars

\* Lose entered by exhausting the two attempts of the advanced level
C1_Witness ==
  /\ phase = "lose" /\ attemptsLeft = 0 /\ ~pileCollapsed
  /\ levelKey = "advanced" /\ stonesTotal = LEVELS["advanced"].stones

\* C2: a failed throw decrements attemptsLeft by exactly 1 and requests Aim
\* if attempts remain after the decrement and Lose otherwise; the request
\* stands until the re-render commits it.
C2_FailedThrow ==
  [][ /\ FailedThrowTick =>
           /\ attemptsLeft' = attemptsLeft - 1
           /\ ~ballActive'
           /\ pendingPhase' = IF attemptsLeft' > 0 THEN "aim" ELSE "lose"
      /\ (phase' = "flight" /\ ~ballActive' /\ ~pileCollapsed') =>
           pendingPhase' = IF attemptsLeft' > 0 THEN "aim" ELSE "lose"
      /\ (phase = "flight" /\ ~ballActive /\ ~pileCollapsed /\ phase' # phase) =>
           phase' = IF attemptsLeft > 0 THEN "aim" ELSE "lose" ]_vars

\* a throw that left the field has cost one attempt and requested Aim
C2_Witness ==
  /\ phase = "flight" /\ ~ballActive /\ out(ball) /\ ~pileCollapsed
  /\ attemptsLeft = LEVELS[levelKey].attempts - 1
  /\ pendingPhase = "aim"

\* C3: 0 <= stonesPlaced <= stonesTotal and attemptsLeft >= 0 in every state,
\* and stonesPlaced never decreases between two resetRound calls.
C3_Counters ==
  [][ /\ 0 <= stonesPlaced /\ stonesPlaced <= stonesTotal /\ attemptsLeft >= 0
      /\ 0 <= stonesPlaced' /\ stonesPlaced' <= stonesTotal' /\ attemptsLeft' >= 0
      /\ ~RoundReset => stonesPlaced' >= stonesPlaced ]_vars

\* the stack is complete and a further place action was still possible
C3_Witness ==
  /\ phase = "rebuild" /\ near /\ frames \in PlaceTicks
  /\ stonesPlaced = stonesTotal /\ stonesTotal = LEVELS["advanced"].stones

C5_CollapseOnce ==
  [][ /\ (pileCollapsed /\ ~pileCollapsed') => RoundReset
      /\ (~pileCollapsed /\ pileCollapsed') => score' = score + 10 ]_vars

\* the pile knocked down again in the round that follows a won round
C5_Witness ==
  /\ rounds = 2 /\ pileCollapsed /\ roundBase = 60 /\ score = 70

\* C6: a Flight update whose motion segment meets the standing pile requests
\* Rebuild, deactivates the ball, puts the opponent on the field edge and
\* leaves attemptsLeft unchanged, also when the ball is below the stop speed
\* or out of the field after the same update.
C6_HitWins ==
  [][ HitTick =>
        /\ pendingPhase' = "rebuild"
        /\ pileCollapsed'
        /\ ~ballActive'
        /\ OnEdge(opponent')
        /\ attemptsLeft' = attemptsLeft ]_vars

\* the ball reached the pile on the update that took it below the stop speed
C6_Witness ==
  /\ phase = "flight" /\ pendingPhase = "rebuild" /\ pileCollapsed
  /\ ~ballActive /\ slow(ballVel)
  /\ attemptsLeft = LEVELS[levelKey].attempts

\* C7: in every state score = (score right after the last resetRound)
\* + 10 if pileCollapsed + 50 if the phase (as the next render shows it) is Win.
C7_ScoreFormula ==
  score = roundBase + (IF pileCollapsed THEN 10 ELSE 0)
                    + (IF EffPhase = "win" THEN 50 ELSE 0)

\* C8: a drag released at its anchor launches the ball with zero velocity, and
\* the next unpaused update does not collapse the pile, meets the stop
\* condition, decrements attemptsLeft by exactly 1 and requests Aim if
\* attempts remain and Lose otherwise.
C8_ZeroDrag ==
  [][ /\ (dragging /\ ~dragging' /\ dragCurrent = dragStart) =>
           (ballVel' = Vec(0, 0) /\ ballActive' /\ ball' = player)
      /\ (FlightTick /\ ballVel = Vec(0, 0)) =>
           /\ ~pileCollapsed'
           /\ slow(ballVel')
           /\ ~ballActive'
           /\ attemptsLeft' = attemptsLeft - 1
           /\ pendingPhase' = IF attemptsLeft' > 0 THEN "aim" ELSE "lose" ]_vars

\* the last attempt was spent on a zero-length drag
C8_Witness ==
  /\ phase = "flight" /\ ~ballActive /\ dragCurrent = dragStart
  /\ ballVel = Vec(0, 0) /\ ball = spawnPoint
  /\ attemptsLeft = 0 /\ pendingPhase = "lose"

C10_TerminalAbsorbing ==
  [][ terminal =>
        IF RoundReset THEN phase' = "aim"
        ELSE /\ phase' = phase
             /\ UNCHANGED << score, attemptsLeft, stonesPlaced,
                             player, opponent, ball >> ]_vars

\* a lost round in which a movement key is held and frames keep running
C10_Witness ==
  /\ phase = "lose" /\ "d" \in keys /\ ~paused
  /\ DistLE(player, opponent, 22) /\ frames < MaxRebuildFrames

\* ------------------------------------------------- the hit test on its own
\* the centre of the probed circle lies on the probed segment
ThroughCentre ==
  LET d == sub(probe.p1, probe.p0)
      g == sub(probe.c, probe.p0)
      along == d.x * g.x + d.y * g.y
  IN /\ d.x * g.y - d.y * g.x = 0
     /\ 0 <= along /\ along <= d.x * d.x + d.y * d.y

\* C13: segmentCircleIntersect gives the same result when the two endpoints
\* of the segment are exchanged, for every positive radius.
C13_SwapSymmetric == probe.done => probe.hit = probe.back

\* a segment from inside the circle to outside it, found to intersect in
\* both orders
C13_Witness ==
  /\ probe.done /\ probe.hit /\ probe.back
  /\ probe.p0 = Vec(0, 0) /\ probe.p1 = Vec(2, 0)
  /\ probe.c = Vec(0, 0) /\ probe.r = 1

\* C14: segmentCircleIntersect returns true for every segment that passes
\* through the centre of the circle, whatever the positive radius, also when
\* the radius exceeds the distance from the centre to both endpoints.
C14_ThroughCentre ==
  (probe.done /\ probe.p0 # probe.p1 /\ ThroughCentre) => probe.hit

\* C15: for a segment of zero length segmentCircleIntersect returns whether
\* the point lies in the circle.
C15_Degenerate ==
  (probe.done /\ probe.p0 = probe.p1)
    => (probe.hit <=> DistLE(probe.p0, probe.c, probe.r))

\* ----------------------------------------------------------- the throw
\* the pointer is released while a drag is in progress
Release == dragging /\ ~dragging'

Abs(n) == IF n < 0 THEN -n ELSE n

\* C16: at drag-end the ball is set to the player's position and activated,
\* its velocity is normalize(d) x min(3.0 x |d|, 600) with d = dragCurrent
\* minus the anchor, and the phase becomes Flight; the launch speed never
\* exceeds 600.  (Velocities are in tenths of a unit per second: the
\* direction is compared by the cross product, the speed to within a
\* thousandth.)
C16_Launch ==
  [][ Release =>
        LET d == sub(dragCurrent, dragStart)
            v == ballVel'
            speed == ISqrt(v.x * v.x + v.y * v.y)
            drag == ISqrt(d.x * d.x + d.y * d.y)
            wanted == Min(ISqrt(900 * (d.x * d.x + d.y * d.y)), 6000)
        IN /\ ball' = player /\ ballActive'
           /\ pendingPhase' = "flight"
           /\ Abs(speed - wanted) <= 6
           /\ speed <= 6006
           /\ Abs(v.x * d.y - v.y * d.x) <= (speed * drag) \div 500 + drag
           /\ v.x * d.x + v.y * d.y >= 0 ]_vars

\* a drag of 384 units to the right was released: the speed is limited to 600
C16_Witness ==
  /\ ~dragging /\ ballActive /\ phase = "flight"
  /\ dragStart = Vec(130, 450) /\ dragCurrent = Vec(514, 450)
  /\ ball = player /\ ballVel = Vec(6000, 0)

\* C17: a pointer-down starts a drag only when the phase is Aim; in Rebuild
\* it is a place attempt and starts no drag; in Intro, Dragging, Flight, Win
\* and Lose it changes nothing (no drag starts, the anchor stays, no stone is
\* placed); a pointer-up launches the ball only if a drag is in progress.
\* The phase is the one of the render that registered the handlers.
C17_PointerByPhase ==
  [][ /\ (dragging' /\ ~dragging) =>
            (phase = "aim" /\ pendingPhase' = "dragging" /\ dragStart' = player)
      /\ phase # "aim" => dragStart' = dragStart
      /\ stonesPlaced' > stonesPlaced => phase = "rebuild"
      /\ (ballActive' /\ ~ballActive) =>
            (dragging /\ ~dragging' /\ pendingPhase' = "flight") ]_vars

\* a drag just started from Aim, not yet rendered
C17_Witness ==
  /\ phase = "aim" /\ pendingPhase = "dragging"
  /\ dragging /\ dragStart = player /\ dragCurrent = Vec(280, 370)
  /\ ~ballActive

\* C18: every update step receives an elapsed time of at most 50 ms,
\* however long the frame took.
C18_StepBound == lastDt <= 50

\* an update has run in a flight whose frames took 50 ms or 200 ms
C18_Witness == phase = "flight" /\ ballActive /\ frames = 3 /\ lastDt = 50

\* C19: the player's position always satisfies 10 <= x <= 890 and
\* 10 <= y <= 530.
C19_PlayerInField ==
  /\ 10 <= player.x /\ player.x <= 890
  /\ 10 <= player.y /\ player.y <= 530

\* the player stands on the upper limit with the up button still held
C19_Witness ==
  phase = "rebuild" /\ heldDir = "up" /\ player.y = 10 /\ frames = MaxRebuildFrames

\* the position lies strictly inside the limits, so no clamp has cut the move
Inside(p) == 10 < p.x /\ p.x < BASE_W - 10 /\ 10 < p.y /\ p.y < BASE_H - 10

\* C20: in one Rebuild tick the player's displacement before clamping is the
\* unit vector of the sum of all directional inputs (keys and on-screen
\* button) times playerSpeed x dt, so its length never exceeds
\* playerSpeed x dt (here: by more than one unit of rounding), also when a
\* key and the button are held together.
C20_UnitSpeed ==
  [][ (RebuildTick /\ Inside(player')) =>
        LET d == sub(player', player)
            s == step(1000, level.playerSpeed, lastDt')
        IN d.x * d.x + d.y * d.y <= (s + 1) * (s + 1) ]_vars

\* ------------------------------------------------------- place and pause
\* a place action: Space, the Place button, or a pointer-down outside Aim
PlaceAction ==
  \/ KeySpace
  \/ handlePlaceStone
  \/ \E p \in Targets : phase # "aim" /\ down(p)

\* C21: a place action outside Rebuild, or with the player farther than 46
\* units from the pile centre (450, 270), or with stonesPlaced equal to
\* stonesTotal, changes nothing: stonesPlaced, score, attemptsLeft, the phase
\* and all positions stay; a place action in Rebuild within 46 units with
\* stonesPlaced < stonesTotal adds exactly 1 to stonesPlaced, and stonesPlaced
\* changes in no other way within a round.
C21_PlaceAction ==
  [][ ~RoundReset =>
        LET can == /\ phase = "rebuild"
                   /\ DistLE(player, Vec(450, 270), 46)
                   /\ stonesPlaced < stonesTotal
        IN /\ stonesPlaced' # stonesPlaced =>
                (can /\ stonesPlaced' = stonesPlaced + 1)
           /\ (PlaceAction /\ can) => stonesPlaced' = stonesPlaced + 1
           /\ (PlaceAction /\ ~can) =>
                /\ UNCHANGED << stonesPlaced, score, attemptsLeft, entityVars >>
                /\ EffPhase' = EffPhase ]_vars

\* two stones placed in range of the pile, the stack not yet complete
C21_Witness ==
  /\ phase = "rebuild" /\ pendingPhase = "none"
  /\ stonesPlaced = 2 /\ stonesPlaced < stonesTotal
  /\ DistLE(player, Vec(450, 270), 46)

\* C22: while the paused flag is set no frame runs an update: the positions
\* of player, opponent and ball, the ball's velocity, attemptsLeft and
\* pileCollapsed change in no step (a new round and the release of a drag
\* apart, which are not frames), no update is counted, and no tag (Lose),
\* collapse (Rebuild) or end of flight (Aim) is requested.
C22_PausedFrozen ==
  [][ (paused /\ ~RoundReset /\ ~Release) =>
        /\ UNCHANGED << player, opponent, ball, ballVel, attemptsLeft,
                        pileCollapsed, frames >>
        /\ pendingPhase' # pendingPhase =>
             pendingPhase' \notin {"lose", "rebuild", "aim"} ]_vars

\* paused in the middle of a rebuild, the opponent on its way
C22_Witness ==
  /\ paused /\ phase = "rebuild" /\ frames = 42
  /\ opponent # player /\ stonesPlaced = 0

\* the first update after a resume
ResumeFrame == clock.awaiting /\ ~clock'.awaiting /\ ~paused'

\* C23: real time that passes while paused is never integrated: the first
\* update after a resume receives at most the time since the loop was
\* restarted by the resume, not the time since the game was paused.
C23_PauseDiscarded ==
  [][ ResumeFrame => clock'.dt <= clock'.now - clock.resumedAt ]_vars

\* paused at 10 ms for 200 ms without a frame, resumed, and the first update,
\* 10 ms later, received 10 ms
C23_Witness ==
  /\ ~paused /\ ~clock.awaiting
  /\ clock.pausedAt = 10 /\ clock.resumedAt = 210
  /\ clock.now = 220 /\ clock.dt = 10

\* ---------------------------------------------------------------- level
\* the level the round was started with: resetRound copied its number of
\* stones, which differs from level to level
roundLevel == LEVELS[CHOOSE k \in DOMAIN LEVELS : LEVELS[k].stones = stonesTotal]

\* C24: the level configuration of a round is the one selected when the round
\* started: stonesTotal does not change before the next resetRound, the
\* attempts left stay within that level's budget, and every Rebuild tick
\* moves the opponent at that level's opponentSpeed, also when another level
\* is selected in the middle of the round.
C24_LevelFixed ==
  [][ ~RoundReset =>
        /\ stonesTotal' = stonesTotal
        /\ attemptsLeft' <= roundLevel.attempts
        /\ RebuildTick =>
             LET dir == norm(sub(player', opponent))
             IN opponent' =
                  Vec(opponent.x + step(dir.x, roundLevel.opponentSpeed, lastDt'),
                      opponent.y + step(dir.y, roundLevel.opponentSpeed, lastDt')) ]_vars

\* ------------------------------------------------------- the Hindi copy
\* the English game has yet to handle the event the Hindi copy has handled
EnglishBehind == enView = hindi.pre /\ hindi.cur # hindi.pre

\* the frame of the event runs an update in the English game
EnglishFrameRuns ==
  /\ hindi.ev.type = "tick"
  /\ ~paused
  /\ pending => stale < MaxStale
  /\ (phase = "rebuild" /\ frames < FrameCap) \/ (phase = "flight" /\ ballActive)

\* the English handler of the event (a frame apart) changes the game's state
EnglishHandles ==
  ENABLED << \/ hindi.ev.type = "start" /\ startGame
             \/ hindi.ev.type = "restart" /\ Restart
             \/ hindi.ev.type = "down" /\ down(hindi.ev.arg)
             \/ hindi.ev.type = "up" /\ up
             \/ hindi.ev.type = "render" /\ Render
             \/ hindi.ev.type = "space" /\ KeySpace
             \/ hindi.ev.type = "keydown" /\ KeyDown(hindi.ev.arg)
             \/ hindi.ev.type = "keyup" /\ KeyUp(hindi.ev.arg)
             \/ hindi.ev.type = "hold" /\ HoldDir(hindi.ev.arg)
             \/ hindi.ev.type = "release" /\ ReleaseDir >>_vars

\* C25: the Hindi copy keeps the game logic: with the phase tags renamed, the
\* same ticks and input events (and the same outcomes of randomEdgeSpawn)
\* lead both copies to the same phase, metrics, pile flag and entity states.
\* Whenever the Hindi copy has changed state on an event, the English game
\* changes state on it too, and every step of the English game on the event
\* ends in the Hindi copy's state.
C25_SameLogic ==
  /\ [](EnglishBehind => (EnglishFrameRuns \/ EnglishHandles))
  /\ [][ (hindi' = hindi) => (enView = hindi.pre /\ enView' = hindi.cur) ]_vars

\* both copies have lost a round after the pile fell: tagged in the rebuild
C25_Witness ==
  /\ phase = "lose" /\ hindi.cur.phase = "haar"
  /\ enView = hindi.cur
  /\ score = 10 /\ pileCollapsed /\ hindi.cur.pileCollapsed

\* ------------------------------------------------------------- pursuit
\* C26: in every unpaused Rebuild tick the opponent's displacement has length
\* opponentSpeed * dt (to the pixel), points along the vector from its old
\* position to the player's position after the player's move of the same
\* tick, and is zero when the two coincide; a tag is requested exactly when
\* the positions after both movements are within the tag range.
C26_Pursuit ==
  [][ RebuildTick =>
        LET d == sub(player', opponent)
            m == sub(opponent', opponent)
            L == level.opponentSpeed * lastDt'
        IN /\ d = Vec(0, 0) => m = Vec(0, 0)
           /\ d # Vec(0, 0) =>
                /\ 1000000 * (m.x * m.x + m.y * m.y) <= (L + 1000) * (L + 1000)
                /\ 1000000 * (m.x * m.x + m.y * m.y) >= (L - 1000) * (L - 1000)
                /\ Abs(m.x * d.y - m.y * d.x) <= Abs(d.x) + Abs(d.y)
                /\ m.x * d.x >= 0 /\ m.y * d.y >= 0
           /\ DistLE(player', opponent', world.tagRange) => pendingPhase' = "lose"
           /\ pendingPhase' # pendingPhase =>
                DistLE(player', opponent', world.tagRange) ]_vars

\* a tick in which the player has moved and the opponent has caught up
C26_Witness ==
  /\ phase = "rebuild" /\ pendingPhase = "lose"
  /\ player # Vec(130, 450)
  /\ DistLE(player, opponent, world.tagRange)
  /\ ~DistLE(player, opponent, world.tagRange - 8)

\* -------------------------------------------------------------- damping
\* 0.985^n in 1/100000
RECURSIVE Pow985(_)
Pow985(n) == IF n = 0 THEN 100000 ELSE DivRound(Pow985(n - 1) * 985, 1000)

\* the velocity given to the ball by the release of this flight
launchVel == throwVelocity(sub(dragCurrent, dragStart))

\* C27: on each Flight tick with an active ball the position advances by the
\* velocity before damping times dt, and each velocity component is then
\* multiplied by 0.985, whatever dt is; the speed never increases, and after
\* n ticks of a flight each component is the launch component times 0.985^n
\* (to the accumulated truncation of n ticks).
C27_Damping ==
  /\ []( (ballActive /\ frames < MaxRebuildFrames) =>
           /\ Abs(100000 * ballVel.x - launchVel.x * Pow985(frames))
                <= 100000 * (frames + 2)
           /\ Abs(100000 * ballVel.y - launchVel.y * Pow985(frames))
                <= 100000 * (frames + 2) )
  /\ [][ FlightTick =>
           /\ Abs(10000 * (ball'.x - ball.x) - ballVel.x * lastDt') <= 5000
           /\ Abs(10000 * (ball'.y - ball.y) - ballVel.y * lastDt') <= 5000
           /\ Abs(1000 * ballVel'.x - 985 * ballVel.x) < 1000
           /\ Abs(1000 * ballVel'.y - 985 * ballVel.y) < 1000
           /\ ballVel'.x * ballVel'.x + ballVel'.y * ballVel'.y
                <= ballVel.x * ballVel.x + ballVel.y * ballVel.y ]_vars

\* a full-power throw after ten ticks, the last of them a short one
C27_Witness ==
  /\ phase = "flight" /\ ballActive /\ frames = 10
  /\ dragCurrent = Vec(450, 270) /\ ballVel = Vec(4494, -2522)
  /\ lastDt = 16

\* ------------------------------------------------------- end of a flight
\* C28: every Flight ends: with frames and re-renders occurring, a shown
\* Flight is followed by Aim, Rebuild or Lose; and a Flight whose ball is
\* inactive is never a resting state: a Flight is entered with the ball
\* active, and once the ball is inactive the phase update that leaves Flight
\* has been requested.
C28_FlightEnds ==
  /\ [](pendingPhase = "flight" => ballActive)
  /\ []((phase = "flight" /\ ~ballActive) =>
          pendingPhase \in {"aim", "rebuild", "lose"})
  /\ (phase = "flight") ~> (phase \in {"aim", "rebuild", "lose"})

\* a weak throw has come to rest in the field after more than sixty ticks
\* and the game is back in Aim
C28_Witness ==
  /\ phase = "aim" /\ ~ballActive /\ frames = MaxRebuildFrames
  /\ dragCurrent = Vec(162, 432)
  /\ attemptsLeft = LEVELS[levelKey].attempts - 1
  /\ ~out(ball)

\* ------------------------------------------------------------ tunnelling
\* the segment from p0 to p1 has a point within r of c: the point of the
\* segment nearest to c is p0, p1 or the foot of the perpendicular from c
SegmentNear(p0, p1, c, r) ==
  LET d == sub(p1, p0)
      f == sub(p0, c)
      a == d.x * d.x + d.y * d.y
      k == -(f.x * d.x + f.y * d.y)
      ff == f.x * f.x + f.y * f.y
  IN IF k <= 0 THEN ff <= r * r
     ELSE IF k >= a THEN DistLE(p1, c, r)
     ELSE a * ff - k * k <= a * r * r

\* C29: the ball neither tunnels through nor rests inside the standing pile:
\* a Flight tick whose motion segment touches or crosses the pile circle
\* fells the pile on that tick, and while the pile stands the ball is
\* strictly outside the pile circle.
C29_NoTunnel ==
  /\ [](~pileCollapsed => ~DistLE(ball, world.pilePos, world.pileRadius))
  /\ [][ (FlightTick /\ ~pileCollapsed
            /\ SegmentNear(ball, ball', world.pilePos, world.pileRadius))
           => pileCollapsed' ]_vars

\* the pile has just fallen to a motion segment that crossed its circle and
\* ended outside it
C29_Witness ==
  /\ pileCollapsed /\ EffPhase = "rebuild" /\ frames = 0 /\ ~ballActive
  /\ ~DistLE(ball, world.pilePos, world.pileRadius)

\* --------------------------------------------------- the player's position
\* C30: the player's position changes only in an update of the Rebuild phase
\* and in resetRound; in the other phases no key, button or tick moves the
\* player, so in Intro, Aim, Dragging and Flight the player stands on the
\* spawn point and every throw is launched from it.
C30_PlayerMoves ==
  /\ [][ player' # player =>
           \/ phase = "rebuild" /\ ~paused /\ frames' = frames + 1
           \/ RoundReset ]_vars
  /\ [](phase \in {"intro", "aim", "dragging", "flight"} => player = spawnPoint)
  /\ [][ Release => ball' = spawnPoint ]_vars

\* a flight has ticked with a movement key held and the player has not moved
C30_Witness ==
  /\ phase = "flight" /\ ballActive /\ frames >= 2
  /\ keys # {}
  /\ player = spawnPoint /\ ball # spawnPoint

C32_TerminalCounters ==
  /\ phase = "win" => (stonesPlaced = stonesTotal /\ pileCollapsed)
  /\ phase = "lose" => (stonesPlaced < stonesTotal /\ bonuses = 0)

\* ------------------------------------------------------ entering Rebuild
\* the farthest the player and the opponent can approach each other in one
\* update: the opponent's step and the player's keyboard and on-screen steps
\* at the fastest level and the longest dt
FirstTickApproach ==
  step(1000, LEVELS["advanced"].opponentSpeed, 50)
    + 2 * step(1000, LEVELS["advanced"].playerSpeed, 50)

\* Rebuild has been requested and not yet shown
EnteringRebuild == pendingPhase = "rebuild" /\ phase # "rebuild"

\* C33: whenever Rebuild is entered the opponent has just been placed on the
\* border inset 20 units from the field edges and the player is at the spawn
\* point; every point of that border is farther from the spawn point than the
\* tag range plus one update's approach, and the first Rebuild update
\* requests no Lose.
C33_SpawnFar ==
  /\ [](EnteringRebuild =>
          /\ player = spawnPoint
          /\ opponent \in EdgePoints
          /\ randomEdgeSpawn \subseteq EdgePoints
          /\ \A o \in EdgePoints :
               ~DistLE(spawnPoint, o, world.tagRange + FirstTickApproach))
  /\ [][ (RebuildTick /\ frames = 0) =>
           (pendingPhase' # "lose" /\ ~DistLE(player', opponent', world.tagRange))
       ]_vars

\* the first Rebuild update after the opponent appeared right below the player
C33_Witness ==
  /\ phase = "rebuild" /\ frames = 1 /\ pendingPhase = "none"
  /\ opponent.x = 130 /\ opponent.y > 500 /\ opponent.y < 520
  /\ player.y <= 450

\* ------------------------------------------------- frames after a flight
\* the flight is over and the game still shows Flight
FlightOver == phase = "flight" /\ ~ballActive

\* C34: while the game still shows Flight after the ball has been
\* deactivated, no step (a frame update among them) changes a position, the
\* velocity, a metric or the pile, or requests a phase; an attempt is taken
\* and the 10 points are given only by the update that deactivates an active
\* ball, so once for a throw.
C34_StaleFlight ==
  [][ ~RoundReset =>
        /\ FlightOver =>
             /\ UNCHANGED << player, opponent, ball, ballVel, ballActive,
                             pileCollapsed, metricVars >>
             /\ pendingPhase' \in {pendingPhase, "none"}
        /\ attemptsLeft' # attemptsLeft =>
             /\ attemptsLeft' = attemptsLeft - 1
             /\ phase = "flight" /\ ballActive /\ ~ballActive'
        /\ pileCollapsed' # pileCollapsed =>
             /\ score' = score + 10
             /\ phase = "flight" /\ ballActive /\ ~ballActive' ]_vars

\* a throw has left the field and taken its attempt, and Aim waits for the
\* re-render
C34_Witness ==
  /\ FlightOver /\ pendingPhase = "aim"
  /\ attemptsLeft = LEVELS[levelKey].attempts - 1
  /\ ~pileCollapsed /\ out(ball)

\* --------------------------------------------------- a tag before a place
\* a Rebuild update has requested Lose and the re-render has yet to show it
LoseRequested == phase = "rebuild" /\ pendingPhase = "lose"

\* C35: once a Rebuild update has requested Lose the round ends in Lose: until
\* the re-render no step places a stone, adds to the score or requests
\* another phase, and the re-render shows Lose.
C35_TagFinal ==
  [][ (LoseRequested /\ ~RoundReset) =>
        /\ stonesPlaced' = stonesPlaced
        /\ score' = score
        /\ EffPhase' = "lose" ]_vars

\* ------------------------------------------------------ inputs in a pause
\* C36: pausing freezes the round: while the game is paused no step other
\* than a new round (Space, pointer-down, pointer-up and the Place button
\* among them) changes the requested phase, the score, stonesPlaced or the
\* ball's position, velocity or activity.
C36_PauseFreezesInput ==
  [][ (paused /\ ~RoundReset) =>
        /\ EffPhase' = EffPhase
        /\ score' = score
        /\ stonesPlaced' = stonesPlaced
        /\ UNCHANGED << ball, ballVel, ballActive >> ]_vars

\* ------------------------------------------------- the held direction
\* C37: an on-screen direction hold does not outlive its button: whenever the
\* game shows a phase other than Rebuild (the direction buttons are not
\* mounted), and so after every resetRound, the held direction is none.
C37_HoldEnds == phase # "rebuild" => heldDir = "none"

\* -------------------------------------------------------------- pursuit
Dist2(a, b) == (a.x - b.x) * (a.x - b.x) + (a.y - b.y) * (a.y - b.y)
\* no key held and no direction button held
NoMovementInput == heldDir = "none" /\ keys = {}

\* C38: in a Rebuild in which the player gives no movement input and places
\* no stone, every update brings the opponent nearer to the player, and with
\* frames occurring the game eventually shows Lose.
C38_PursuitCatches ==
  /\ [][ (RebuildTick /\ NoMovementInput)
            => Dist2(player', opponent') < Dist2(player, opponent) ]_vars
  /\ NoMovementInput => <>(phase = "lose")
C38_Witness ==
  /\ phase = "lose" /\ NoMovementInput
  /\ levelKey = "beginner" /\ frames >= 150
  /\ player = spawnPoint /\ tagged(player, opponent)

\* ------------------------------------------------- the gate of Next Round
\* The rounds that follow a win: the state is the one tryPlaceStone leaves
\* when the last stone of the beginner level is placed at the pile, and
\* rounds counts the rounds started since.
InitGate ==
  /\ levelKey = "beginner"
  /\ phase = "win" /\ pendingPhase = "none"
  /\ paused = FALSE /\ pendingPause = FALSE
  /\ heldDir = "none" /\ keys = {}
  /\ player = Vec(450, 274)
  /\ opponent = Vec(180, 301)
  /\ ball = Vec(433, 288)
  /\ ballVel = Vec(3579, -1909) /\ ballActive = FALSE
  /\ pileCollapsed = TRUE
  /\ score = 60
  /\ attemptsLeft = LEVELS[levelKey].attempts
  /\ stonesPlaced = LEVELS[levelKey].stones
  /\ stonesTotal = LEVELS[levelKey].stones
  /\ dragging = FALSE /\ dragStart = spawnPoint /\ dragCurrent = Vec(280, 370)
  /\ careerModalOpen = TRUE /\ pendingModal = FALSE
  /\ selectedCareer = "none" /\ classInput = FALSE
  /\ hasViewedRoadmap = FALSE /\ videoWatched = FALSE /\ fetches = 0
  /\ fetchHist = noFetchHist
  /\ roundBase = 0 /\ frames = 41 /\ levelChanges = 0 /\ rounds = 0
  /\ repeats = 0 /\ lastDt = 50
  /\ stale = 0 /\ bonuses = 1
  /\ probe = noProbe /\ clock = noClock /\ hindi = noHindi /\ viewer = noViewer

NextGate ==
  \/ Render
  \/ NextRound
  \/ \E k \in MoveKeys : KeyDown(k)
  \/ \E k \in MoveKeys : KeyUp(k)
  \/ KeySpace
  \/ handlePlaceStone
  \/ \E p \in Targets : down(p)
  \/ \E p \in Targets : move(p)
  \/ up
  \/ \E d \in Dirs : HoldDir(d)
  \/ ReleaseDir
  \/ \E e \in Elapsed : loop(e)
  \/ ViewCareer
  \/ CloseModal
  \/ \E c \in Careers : SelectCareer(c)
  \/ SetClass
  \/ ShowRoadmap
  \/ FetchOk
  \/ FetchFail
  \/ VideoEnd

SpecGate == InitGate /\ [][NextGate]_vars

\* ---------------------------------------------------------- RoadmapViewer
\* The component on its own: the parent changes selectedCareer and
\* selectedClass, each change runs the effect, and the responses arrive in
\* any order.  issued numbers the requests; shown is the number of the
\* request whose response set roadmapData or error last.
ViewerCareers == {"", "Doctor", "Engineer"}
ViewerClasses == {0, 8, 10}
MaxRequests == 3

\* useEffect callback for the props (c, k)
viewerEffect(v, c, k) ==
  IF c = "" \/ k = 0
    THEN [v EXCEPT !.career = c, !.class = k]
    ELSE [v EXCEPT !.career = c, !.class = k,
                   !.loading = TRUE,
                   !.issued = @ + 1,
                   !.inflight = @ \cup {[id |-> v.issued + 1, career |-> c, class |-> k]}]

\* the component mounted with some props, its effect run once
InitViewer ==
  /\ InitGame /\ probe = noProbe /\ clock = noClock /\ hindi = noHindi
  /\ \E c \in ViewerCareers, k \in ViewerClasses :
       viewer = viewerEffect(noViewer, c, k)

\* the parent passes new props: the dependency array re-runs the effect
SetProps(c, k) ==
  /\ << c, k >> # << viewer.career, viewer.class >>
  /\ viewer.issued < MaxRequests
  /\ viewer' = viewerEffect(viewer, c, k)
  /\ UNCHANGED << gameVars, probe, clock, hindi >>

\* the response of request r is ok: both .then callbacks and .finally
ViewerOk(r) ==
  /\ r \in viewer.inflight
  /\ viewer' = [viewer EXCEPT
       !.inflight = @ \ {r},
       !.roadmapData = [career |-> r.career, starting_class |-> r.class],
       !.error = "null",
       !.loading = FALSE,
       !.shown = r.id]
  /\ UNCHANGED << gameVars, probe, clock, hindi >>

\* request r fails: .catch and .finally
ViewerFail(r) ==
  /\ r \in viewer.inflight
  /\ viewer' = [viewer EXCEPT
       !.inflight = @ \ {r},
       !.error = "Failed to fetch roadmap",
       !.roadmapData = noViewer.roadmapData,
       !.loading = FALSE,
       !.shown = r.id]
  /\ UNCHANGED << gameVars, probe, clock, hindi >>

NextViewer ==
  \/ \E c \in ViewerCareers, k \in ViewerClasses : SetProps(c, k)
  \/ \E r \in viewer.inflight : ViewerOk(r)
  \/ \E r \in viewer.inflight : ViewerFail(r)

SpecViewer == InitViewer /\ [][NextViewer]_vars

\* C39: Next Round is issued only after a roadmap fetch started in the same
\* round has succeeded in that round and the video has then played to its
\* end; resetRound clears both flags, whatever the timing of the responses.
C39_GatePerRound ==
  /\ [][ NextRound => (fetchHist.viewed /\ videoWatched) ]_vars
  /\ [][ RoundReset => (~hasViewedRoadmap' /\ ~videoWatched') ]_vars

\* C40: when the selection changes while an earlier request is in flight,
\* once every request has completed the roadmap or error shown is the result
\* of the request issued last, and loading is true while any request is in
\* flight.
C40_LatestShown ==
  /\ (viewer.inflight = {} /\ viewer.issued > 0) => viewer.shown = viewer.issued
  /\ viewer.inflight # {} => viewer.loading

====
